---- MODULE Spec2Model ----
(***************************************************************************)
(* Tool-invocation protocol and agent orchestration runtime of the         *)
(* chatbot service (src/chatbot): the conversation session manager         *)
(* (agent/conversation.py), the orchestration loop (agent/chat.py), the    *)
(* agent's tool layer (agent/tools.py), the tool registry                  *)
(* (mcp_server/tools/__init__.py) and the dispatch server                  *)
(* (mcp_server/main.py) with its task handlers.                            *)
(*                                                                         *)
(* Time is a discrete clock `now`.  Identifiers that the code draws with   *)
(* uuid4() are drawn from counters.  Message timestamps are the values of  *)
(* a strictly increasing counter, standing for a clock whose resolution    *)
(* separates two consecutive stores.                                       *)
(***************************************************************************)
EXTENDS Integers, Sequences, FiniteSets, TLC

\* ------------------------------------------------------------------ bounds
\* AgentSettings.max_tool_rounds (a setting, default 5), scaled down.
MaxRounds == 2
\* AgentSettings.session_timeout_minutes (a setting, default 30), scaled down.
SessionTimeout == 2
\* AgentSettings.context_message_limit (a setting, default 10), scaled down.
ContextLimit == 3
\* The clock stops here.
MaxTime == 4
\* Chat requests served in one behaviour.
MaxChats == 3
\* Conversation rows that can be allocated.
MaxConvs == 3
\* Task rows that can be allocated.
MaxTasks == 2
\* Tool calls one model response can carry.
MaxCallsPerRound == 2

\* ------------------------------------------------------------- value sets
Users == {"u1", "u2"}
\* uuid4() values for task rows, in the order they are drawn.
TaskIdPool == <<"t1", "t2", "t3", "t4">>
\* Strings that parse as a UUID.
ValidUuids == Users \cup {TaskIdPool[i] : i \in 1..Len(TaskIdPool)}
\* A key that a parameter map does not hold.
Absent == "<absent>"
\* Python's None for an optional conversation id / a missing row.
NoConv == 0
\* Python's None for a string-valued field.
None == "<None>"
UserMessages == {"hi"}
\* Request slots: one coroutine per chat request.
Reqs == {1, 2}

VARIABLES
    now,            \* the clock, datetime.now(UTC)
    conversations,  \* committed rows of table conversations: id -> row
    nConv,          \* conversation ids allocated so far
    messages,       \* committed rows of table messages (a set of rows)
    msgClock,       \* message timestamps handed out so far
    tasks,          \* committed rows of table tasks: id -> row
    nTask,          \* task ids allocated so far
    registry,       \* ToolRegistry._tools, in insertion order
    clientTools,    \* OpenRouterClient.tools
    req,            \* the chat requests in flight, by slot
    nChats,         \* chat requests started so far
    lastConv,       \* per owner, the session of the last completed exchange
    mcp,            \* the last exchange with POST /mcp/call or GET /mcp/tools
    http,           \* the last exchange with GET /conversations/{id}/messages
    agentSdk        \* agent_sdk's module state: "unset" until the lifespan
                    \* handler has run, then "ready" or "not_ready"

vars == <<now, conversations, nConv, messages, msgClock, tasks, nTask,
          registry, clientTools, req, nChats, lastConv, mcp, http, agentSdk>>

\* ---------------------------------------------------------------- helpers
RECURSIVE SortByCreatedAt(_)
\* ORDER BY created_at (ascending) over a set of message rows.
SortByCreatedAt(S) ==
    IF S = {} THEN <<>>
    ELSE LET m == CHOOSE x \in S : \A y \in S : x.created_at <= y.created_at
         IN  <<m>> \o SortByCreatedAt(S \ {m})

\* The first n entries of a sequence (all of it when it is shorter).
FirstN(s, n) ==
    IF Len(s) <= n THEN s ELSE SubSeq(s, 1, n)

Reverse(s) == [i \in 1..Len(s) |-> s[Len(s) + 1 - i]]

SeqToSet(s) == {s[i] : i \in 1..Len(s)}

\* ------------------------------------------- conversation session manager
\* A conversation row that is not there.
NoRow == [user_id |-> None, created_at |-> 0, last_activity |-> 0]

IsActiveStrict(last_activity, cutoff) == last_activity > cutoff
IsActiveAlways(last_activity, cutoff) == TRUE
\* conversation.py: last_activity >= cutoff, with cutoff = now - timeout.
IsActive(last_activity, cutoff) == last_activity >= cutoff

GetConversationByIdNoOwner(convs, conversation_id, user_id) ==
    IF conversation_id \in DOMAIN convs THEN conversation_id ELSE NoConv
\* _get_conversation_by_id: the row with that id and that owner, or None.
GetConversationById(convs, conversation_id, user_id) ==
    IF conversation_id \in DOMAIN convs
       /\ convs[conversation_id].user_id = user_id
    THEN conversation_id
    ELSE NoConv

\* The rows the "most recent active conversation" query can return: the
\* owner's rows inside the window with the greatest last_activity (LIMIT 1
\* picks any one of several rows that tie).
MostRecentActive(convs, user_id, cutoff) ==
    LET act == {c \in DOMAIN convs :
                   /\ convs[c].user_id = user_id
                   /\ IsActive(convs[c].last_activity, cutoff)}
    IN  {c \in act : \A d \in act :
            convs[d].last_activity <= convs[c].last_activity}

ReusableConversationsExplicitOnly(convs, user_id, conversation_id, t) ==
    LET cutoff == t - SessionTimeout
        byId == IF conversation_id # NoConv
                THEN GetConversationById(convs, conversation_id, user_id)
                ELSE NoConv
    IN  IF byId # NoConv /\ IsActive(convs[byId].last_activity, cutoff)
        THEN {byId}
        ELSE IF conversation_id # NoConv THEN {}
        ELSE MostRecentActive(convs, user_id, cutoff)
\* get_or_create_conversation, steps 1 and 2: the existing rows it can
\* return ({} when it goes on to create one).
ReusableConversations(convs, user_id, conversation_id, t) ==
    LET cutoff == t - SessionTimeout
        byId == IF conversation_id # NoConv
                THEN GetConversationById(convs, conversation_id, user_id)
                ELSE NoConv
    IN  IF byId # NoConv /\ IsActive(convs[byId].last_activity, cutoff)
        THEN {byId}
        ELSE MostRecentActive(convs, user_id, cutoff)

GetContextRowsOldest(msgs, conversation_id, limit) ==
    FirstN(SortByCreatedAt({m \in msgs : m.conversation_id = conversation_id}),
           limit)
\* get_context_messages, the query and the reversal: the rows of the
\* conversation ORDER BY created_at DESC LIMIT limit, reversed.
GetContextRows(msgs, conversation_id, limit) ==
    LET mine == {m \in msgs : m.conversation_id = conversation_id}
        newestFirst == Reverse(SortByCreatedAt(mine))
    IN  Reverse(FirstN(newestFirst, limit))

\* get_context_messages: the `limit` newest rows of the conversation,
\* oldest first, as {role, content}.
GetContextMessages(msgs, conversation_id, limit) ==
    LET rows == GetContextRows(msgs, conversation_id, limit)
    IN  [i \in 1..Len(rows) |->
            [role |-> rows[i].role, content |-> rows[i].content]]

\* get_conversation_messages: None (found = FALSE) when the conversation is
\* absent or owned by someone else, else its first `limit` rows in creation
\* order.
GetConversationMessages(convs, msgs, conversation_id, user_id, limit) ==
    IF GetConversationById(convs, conversation_id, user_id) = NoConv
    THEN [found |-> FALSE, messages |-> <<>>]
    ELSE LET rows == FirstN(SortByCreatedAt(
                        {m \in msgs : m.conversation_id = conversation_id}),
                        limit)
         IN  [found |-> TRUE,
              messages |-> [i \in 1..Len(rows) |->
                [id |-> rows[i].id, role |-> rows[i].role,
                 content |-> rows[i].content,
                 created_at |-> rows[i].created_at]]]


\* ------------------------------------------------------------ tool registry
Prop(n, ty) == [name |-> n, type |-> ty]

\* The parameter models of mcp_server/schemas.py, as the JSON schema that
\* model_json_schema() gives: the properties in declaration order and the
\* required names.  Optional fields that no modelled caller sets
\* (description, priority, category, tags, due_date, due_time, clear_*) are
\* left out.
AddTaskParams ==
    [properties |-> <<Prop("user_id", "uuid"), Prop("title", "string")>>,
     required |-> <<"user_id", "title">>]
ListTasksParams ==
    [properties |-> <<Prop("user_id", "uuid"), Prop("status", "enum")>>,
     required |-> <<"user_id">>]
CompleteTaskParams ==
    [properties |-> <<Prop("user_id", "uuid"), Prop("task_id", "uuid")>>,
     required |-> <<"user_id", "task_id">>]
DeleteTaskParams ==
    [properties |-> <<Prop("user_id", "uuid"), Prop("task_id", "uuid")>>,
     required |-> <<"user_id", "task_id">>]
UpdateTaskParams ==
    [properties |-> <<Prop("user_id", "uuid"), Prop("task_id", "uuid"),
                      Prop("title", "string")>>,
     required |-> <<"user_id", "task_id">>]

\* ToolDefinition: name, handler and parameter model (the description is a
\* fixed text per tool and is left out).
ToolDefinition(name, handler, params_model) ==
    [name |-> name, handler |-> handler, params_model |-> params_model]

\* A registry lookup that found nothing.
NoTool == ToolDefinition(None, None, [properties |-> <<>>, required |-> <<>>])

\* The registry after mcp_server/main.py has imported the five tool modules,
\* in import order.
RegisteredAtImport ==
    << ToolDefinition("add_task", "add_task", AddTaskParams),
       ToolDefinition("list_tasks", "list_tasks", ListTasksParams),
       ToolDefinition("complete_task", "complete_task", CompleteTaskParams),
       ToolDefinition("delete_task", "delete_task", DeleteTaskParams),
       ToolDefinition("update_task", "update_task", UpdateTaskParams) >>

RegistryRegisterAppend(reg, def) == Append(reg, def)
\* ToolRegistry.register: _tools[name] = definition.  A dict assignment to a
\* key it holds keeps the key's place; a new key goes last.
RegistryRegister(reg, def) ==
    IF \E i \in 1..Len(reg) : reg[i].name = def.name
    THEN [i \in 1..Len(reg) |-> IF reg[i].name = def.name THEN def ELSE reg[i]]
    ELSE Append(reg, def)

RegistryGetOrFirst(reg, name) ==
    IF \E i \in 1..Len(reg) : reg[i].name = name
    THEN reg[CHOOSE i \in 1..Len(reg) : reg[i].name = name]
    ELSE reg[1]
\* ToolRegistry.get: the definition under that name, or None.
RegistryGet(reg, name) ==
    IF \E i \in 1..Len(reg) : reg[i].name = name
    THEN reg[CHOOSE i \in 1..Len(reg) : reg[i].name = name]
    ELSE NoTool

\* Fields the agent injects itself (agent/tools.py SYSTEM_INJECTED_FIELDS).
SYSTEM_INJECTED_FIELDS == {"user_id"}

ToDictStripped(tool) ==
    [name |-> tool.name,
     parameters |->
        [properties |-> SelectSeq(tool.params_model.properties,
                            LAMBDA q : q.name \notin SYSTEM_INJECTED_FIELDS),
         required |-> SelectSeq(tool.params_model.required,
                            LAMBDA f : f \notin SYSTEM_INJECTED_FIELDS)]]
\* ToolDefinition.to_dict: name (description) and the full schema of the
\* parameter model.
ToDict(tool) ==
    [name |-> tool.name, parameters |-> tool.params_model]

\* ToolRegistry.list_tools, served by GET /mcp/tools.
ListTools(reg) == [i \in 1..Len(reg) |-> ToDict(reg[i])]

McpToOpenaiFunctionKeepRequired(mcp_tool) ==
    [type |-> "function",
     function |->
        [name |-> mcp_tool.name,
         parameters |->
            [type |-> "object",
             properties |-> SelectSeq(mcp_tool.parameters.properties,
                               LAMBDA q : q.name \notin SYSTEM_INJECTED_FIELDS),
             required |-> mcp_tool.parameters.required]]]
\* mcp_to_openai_function: the function declaration shown to the model,
\* with the injected fields filtered out of properties and of required.
McpToOpenaiFunction(mcp_tool) ==
    [type |-> "function",
     function |->
        [name |-> mcp_tool.name,
         parameters |->
            [type |-> "object",
             properties |-> SelectSeq(mcp_tool.parameters.properties,
                               LAMBDA q : q.name \notin SYSTEM_INJECTED_FIELDS),
             required |-> SelectSeq(mcp_tool.parameters.required,
                               LAMBDA f : f \notin SYSTEM_INJECTED_FIELDS)]]]

\* get_openai_tools: every tool of GET /mcp/tools, converted.
GetOpenaiTools(reg) ==
    LET mcp_tools == ListTools(reg)
    IN  [i \in 1..Len(mcp_tools) |-> McpToOpenaiFunction(mcp_tools[i])]


\* -------------------------------------------------------- dispatch server
\* The keys a parameter map can hold; a map is a record over them, with
\* Absent for a key it does not hold.
Params(user_id, title, task_id, status) ==
    [user_id |-> user_id, title |-> title, task_id |-> task_id,
     status |-> status]

Msg(text, arg) == [text |-> text, arg |-> arg]

NoDetails == [available_tools |-> <<>>, errors |-> <<>>, ids |-> {}]
NoData == [task_id |-> None, status |-> None, title |-> None, tasks |-> <<>>]

\* The envelope of POST /mcp/call.
Envelope(status, code, message, details, data) ==
    [status |-> status, code |-> code, message |-> message,
     details |-> details, data |-> data]

\* One pydantic error of a field: missing when required and not given, else
\* what the field's type refuses.
FieldErrors(prop, required, v) ==
    IF v = Absent
    THEN IF prop.name \in SeqToSet(required)
         THEN <<[loc |-> prop.name, type |-> "missing"]>>
         ELSE <<>>
    ELSE IF prop.type = "uuid"
         THEN IF v \in ValidUuids THEN <<>>
              ELSE <<[loc |-> prop.name, type |-> "uuid_parsing"]>>
    ELSE IF prop.type = "string"
         THEN IF v = "" THEN <<[loc |-> prop.name, type |-> "string_too_short"]>>
              ELSE <<>>
    ELSE IF v \in {"all", "pending", "completed"} THEN <<>>
         ELSE <<[loc |-> prop.name, type |-> "enum"]>>

RECURSIVE ValidateFrom(_, _, _)
\* The errors of the fields from the i-th on, in declaration order.
ValidateFrom(params_model, parameters, i) ==
    IF i > Len(params_model.properties) THEN <<>>
    ELSE FieldErrors(params_model.properties[i], params_model.required,
                     parameters[params_model.properties[i].name])
         \o ValidateFrom(params_model, parameters, i + 1)

ValidateParamsFirstOnly(params_model, parameters) ==
    FirstN(ValidateFrom(params_model, parameters, 1), 1)
\* tool.params_model(**request.parameters): every field's errors, and for
\* UpdateTaskParams (the model with an optional title) model_post_init's
\* "at least one field" error when the fields themselves are valid.
ValidateParams(params_model, parameters) ==
    LET errs == ValidateFrom(params_model, parameters, 1)
        updatable == \E i \in 1..Len(params_model.properties) :
                        /\ params_model.properties[i].name = "title"
                        /\ "title" \notin SeqToSet(params_model.required)
    IN  IF errs = <<>> /\ updatable /\ parameters.title = Absent
        THEN <<[loc |-> "", type |-> "value_error"]>>
        ELSE errs

\* What a handler gives back: its data or the ToolError it raised, and the
\* task table after it.
HandlerOk(data, tks, n) ==
    [raised |-> FALSE, code |-> None, message |-> Msg(None, None),
     details |-> NoDetails, data |-> data, tasks |-> tks, nTask |-> n]
HandlerRaised(code, message, ids, tks, n) ==
    [raised |-> TRUE, code |-> code, message |-> message,
     details |-> [NoDetails EXCEPT !.ids = ids], data |-> NoData,
     tasks |-> tks, nTask |-> n]

\* base.py task_not_found / unauthorized.
TaskNotFound(task_id, tks, n) ==
    HandlerRaised("TASK_NOT_FOUND", Msg("Task {} not found", task_id),
                  {task_id}, tks, n)
Unauthorized(user_id, task_id, tks, n) ==
    HandlerRaised("UNAUTHORIZED",
                  Msg("You do not have permission to access this task", None),
                  {user_id, task_id}, tks, n)

\* add_task: a new row owned by params.user_id.
AddTask(params, tks, n) ==
    LET id == TaskIdPool[n + 1]
        row == [user_id |-> params.user_id, title |-> params.title,
                completed |-> FALSE, created_at |-> n + 1]
    IN  HandlerOk([NoData EXCEPT !.task_id = id, !.status = "created",
                                 !.title = params.title],
                  [t \in DOMAIN tks \cup {id} |->
                      IF t = id THEN row ELSE tks[t]],
                  n + 1)

RECURSIVE NewestFirst(_, _)
\* ORDER BY created_at DESC over the task ids in S.
NewestFirst(tks, S) ==
    IF S = {} THEN <<>>
    ELSE LET t == CHOOSE x \in S :
                    \A y \in S : tks[y].created_at <= tks[x].created_at
         IN  <<t>> \o NewestFirst(tks, S \ {t})

\* list_tasks: the rows of params.user_id that pass the status filter.
ListTasks(params, tks, n) ==
    LET mine == {t \in DOMAIN tks :
                    /\ tks[t].user_id = params.user_id
                    /\ (params.status = "pending" => ~tks[t].completed)
                    /\ (params.status = "completed" => tks[t].completed)}
        ids == NewestFirst(tks, mine)
    IN  HandlerOk([NoData EXCEPT !.tasks =
                      [i \in 1..Len(ids) |->
                          [id |-> ids[i], title |-> tks[ids[i]].title,
                           completed |-> tks[ids[i]].completed]]],
                  tks, n)

CompleteTaskAnyOwner(params, tks, n) ==
    IF params.task_id \notin DOMAIN tks
    THEN TaskNotFound(params.task_id, tks, n)
    ELSE LET done == ~tks[params.task_id].completed
         IN  HandlerOk([NoData EXCEPT
                            !.task_id = params.task_id,
                            !.status = IF done THEN "completed" ELSE "pending",
                            !.title = tks[params.task_id].title],
                       [tks EXCEPT ![params.task_id].completed = done], n)
\* complete_task: toggles the row when it exists and is owned by the caller.
CompleteTask(params, tks, n) ==
    IF params.task_id \notin DOMAIN tks
    THEN TaskNotFound(params.task_id, tks, n)
    ELSE IF tks[params.task_id].user_id # params.user_id
    THEN Unauthorized(params.user_id, params.task_id, tks, n)
    ELSE LET done == ~tks[params.task_id].completed
         IN  HandlerOk([NoData EXCEPT
                            !.task_id = params.task_id,
                            !.status = IF done THEN "completed" ELSE "pending",
                            !.title = tks[params.task_id].title],
                       [tks EXCEPT ![params.task_id].completed = done], n)

DeleteTaskAnyOwner(params, tks, n) ==
    IF params.task_id \notin DOMAIN tks
    THEN TaskNotFound(params.task_id, tks, n)
    ELSE HandlerOk([NoData EXCEPT !.task_id = params.task_id,
                                  !.status = "deleted",
                                  !.title = tks[params.task_id].title],
                   [t \in DOMAIN tks \ {params.task_id} |-> tks[t]], n)
\* delete_task: removes the row when it exists and is owned by the caller.
DeleteTask(params, tks, n) ==
    IF params.task_id \notin DOMAIN tks
    THEN TaskNotFound(params.task_id, tks, n)
    ELSE IF tks[params.task_id].user_id # params.user_id
    THEN Unauthorized(params.user_id, params.task_id, tks, n)
    ELSE HandlerOk([NoData EXCEPT !.task_id = params.task_id,
                                  !.status = "deleted",
                                  !.title = tks[params.task_id].title],
                   [t \in DOMAIN tks \ {params.task_id} |-> tks[t]], n)

\* update_task: sets the title when it exists and is owned by the caller.
UpdateTask(params, tks, n) ==
    IF params.task_id \notin DOMAIN tks
    THEN TaskNotFound(params.task_id, tks, n)
    ELSE IF tks[params.task_id].user_id # params.user_id
    THEN Unauthorized(params.user_id, params.task_id, tks, n)
    ELSE LET title == IF params.title # Absent THEN params.title
                      ELSE tks[params.task_id].title
         IN  HandlerOk([NoData EXCEPT !.task_id = params.task_id,
                                      !.status = "updated", !.title = title],
                       [tks EXCEPT ![params.task_id].title = title], n)

\* await tool.handler(params=params, db=db)
RunHandler(handler, params, tks, n) ==
    CASE handler = "add_task" -> AddTask(params, tks, n)
      [] handler = "list_tasks" -> ListTasks(params, tks, n)
      [] handler = "complete_task" -> CompleteTask(params, tks, n)
      [] handler = "delete_task" -> DeleteTask(params, tks, n)
      [] OTHER -> UpdateTask(params, tks, n)


\* call_mcp_tool (POST /mcp/call): the envelope, the task table after the
\* call and the handler that ran (None when none did).  The request's
\* database session commits when the endpoint returns.
CallMcpTool(reg, tool_name, parameters, tks, n) ==
    LET names == [i \in 1..Len(ListTools(reg)) |-> ListTools(reg)[i].name]
        Answer(tool, errs, h) ==
            IF tool = NoTool
            THEN [response |-> Envelope("error", "VALIDATION_ERROR",
                                  Msg("Unknown tool: {}", tool_name),
                                  [NoDetails EXCEPT !.available_tools = names],
                                  NoData),
                  tasks |-> tks, nTask |-> n, invoked |-> None]
            ELSE IF errs # <<>>
            THEN [response |-> Envelope("error", "VALIDATION_ERROR",
                                  Msg("Invalid parameters", None),
                                  [NoDetails EXCEPT !.errors = errs], NoData),
                  tasks |-> tks, nTask |-> n, invoked |-> None]
            ELSE IF h.raised
            THEN [response |-> Envelope("error", h.code, h.message, h.details,
                                        NoData),
                  tasks |-> h.tasks, nTask |-> h.nTask,
                  invoked |-> tool.handler]
            ELSE [response |-> Envelope("success", None, Msg(None, None),
                                        NoDetails, h.data),
                  tasks |-> h.tasks, nTask |-> h.nTask,
                  invoked |-> tool.handler]
        Serve(tool) ==
            Answer(tool, ValidateParams(tool.params_model, parameters),
                   RunHandler(tool.handler, parameters, tks, n))
    IN  Serve(RegistryGet(reg, tool_name))

\* ------------------------------------------------------- agent tool layer
\* The exceptions of agent/tools.py: the class, the message, what
\* details["error"] holds, the validation errors, and the identifiers the
\* message and details carry.
ToolErr(cls, message, details_error, errors, ids) ==
    [cls |-> cls, message |-> message, details_error |-> details_error,
     errors |-> errors, ids |-> ids]
NoErr == ToolErr(None, Msg(None, None), Msg(None, None), <<>>, {})

MCPServerUnavailable(url, error) ==
    ToolErr("MCPServerUnavailable",
            Msg("MCP server unavailable at {url}: {}", error),
            Msg(error, None), <<>>, {url})
ToolValidationErrorAsExecution(tool_name, errors) ==
    ToolErr("ToolExecutionError",
            Msg("Tool '{tool}' failed: {}", Msg("Invalid parameters", None)),
            Msg("Invalid parameters", None), <<>>, {})
ToolValidationError(tool_name, errors) ==
    ToolErr("ToolValidationError",
            Msg("Invalid parameters for tool '{}'", tool_name),
            Msg(None, None), errors, {})
\* details = {"tool": tool_name, "error": error, **details}
ToolExecutionError(tool_name, error, ids) ==
    ToolErr("ToolExecutionError",
            Msg("Tool '{tool}' failed: {}", error), error, <<>>, ids)

\* The agent's address of the dispatch server (settings.mcp_server_url).
McpCallUrl == "http://localhost:8001/mcp/call"

InjectUserIdKeepCallers(arguments, user_id) ==
    IF arguments.user_id # Absent THEN arguments
    ELSE [arguments EXCEPT !.user_id = user_id]
\* parameters = {**arguments, "user_id": str(user_id)}
InjectUserId(arguments, user_id) ==
    [arguments EXCEPT !.user_id = user_id]

\* execute_mcp_tool: posts {tool, parameters} to the dispatch server.
\* transport is what the HTTP exchange does: "ok", "connect_error" (the
\* server cannot be reached), "http_status_error" (a 4xx/5xx answer) or
\* "other_error" (any other exception of the client, a timeout among them).
\* A request that does not reach the server changes no task.
ExecuteMcpTool(reg, tool_name, arguments, user_id, transport, tks, n) ==
    LET parameters == InjectUserId(arguments, user_id)
        served == CallMcpTool(reg, tool_name, parameters, tks, n)
        env == served.response
        same == [tasks |-> tks, nTask |-> n, invoked |-> None]
    IN  IF transport = "connect_error"
        THEN [raised |-> TRUE, parameters |-> parameters, data |-> NoData,
              error |-> MCPServerUnavailable(McpCallUrl, "ConnectError")]
             @@ same
        ELSE IF transport = "http_status_error"
        THEN [raised |-> TRUE, parameters |-> parameters, data |-> NoData,
              error |-> MCPServerUnavailable(McpCallUrl, "HTTP 5xx")]
             @@ same
        ELSE IF transport = "other_error"
        THEN [raised |-> TRUE, parameters |-> parameters, data |-> NoData,
              error |-> ToolExecutionError(tool_name,
                            Msg("ReadTimeout", None), {})]
             @@ same
        ELSE IF env.status = "error" /\ env.code = "VALIDATION_ERROR"
        THEN [raised |-> TRUE, parameters |-> parameters, data |-> NoData,
              error |-> ToolValidationError(tool_name, env.details.errors),
              tasks |-> served.tasks, nTask |-> served.nTask,
              invoked |-> served.invoked]
        ELSE IF env.status = "error"
        THEN [raised |-> TRUE, parameters |-> parameters, data |-> NoData,
              error |-> ToolExecutionError(tool_name, env.message,
                                           env.details.ids),
              tasks |-> served.tasks, nTask |-> served.nTask,
              invoked |-> served.invoked]
        ELSE [raised |-> FALSE, parameters |-> parameters,
              data |-> env.data, error |-> NoErr,
              tasks |-> served.tasks, nTask |-> served.nTask,
              invoked |-> served.invoked]

\* A sentence for the user: its fixed text and the message interpolated
\* into it.
Sentence(text, inner) == [text |-> text, inner |-> inner]

\* format_tool_error_for_user: the sentence fed back for a failed call.
FormatToolErrorForUser(error) ==
    IF error.cls = "MCPServerUnavailable"
    THEN Sentence("I'm having trouble connecting to the task service. Please try again in a moment.", Msg(None, None))
    ELSE IF error.cls = "ToolValidationError"
    THEN IF error.errors # <<>>
         THEN Sentence("There was a problem with the {}: {msg}",
                       Msg(error.errors[1].loc, None))
         ELSE Sentence("The request couldn't be processed due to invalid data.", Msg(None, None))
    ELSE IF error.cls = "ToolExecutionError"
    THEN IF error.details_error = Msg("TASK_NOT_FOUND", None)
         THEN Sentence("I couldn't find that task. It may have been deleted or doesn't exist.", Msg(None, None))
         ELSE IF error.details_error = Msg("UNAUTHORIZED", None)
         THEN Sentence("You don't have permission to access that task.", Msg(None, None))
         ELSE Sentence("I encountered an issue: {}", error.message)
    ELSE Sentence("Something went wrong while processing your request. Please try again.", Msg(None, None))

\* The JSON body of a tool turn: {"error": sentence} or the result data.
Payload(kind, error, result) ==
    [kind |-> kind, error |-> error, result |-> result]
NoPayload == Payload(None, Sentence(None, Msg(None, None)), NoData)

\* A message of the model context: role and content, the tool calls of an
\* assistant turn, and for a tool turn the call it answers and its payload.
CtxMsg(role, content) ==
    [role |-> role, content |-> content, tool_calls |-> <<>>,
     tool_call_id |-> 0, payload |-> NoPayload]

\* build_tool_result_message: role "tool", the call's id, and the JSON of
\* {"error": error} or of the result.
BuildToolResultMessage(tool_call_id, raised, data, error_message) ==
    [role |-> "tool", content |-> None, tool_calls |-> <<>>,
     tool_call_id |-> tool_call_id,
     payload |-> IF raised THEN Payload("error", error_message, NoData)
                 ELSE Payload("result", Sentence(None, Msg(None, None)),
                              data)]

\* _format_result_preview
FormatResultPreview(tool_name, data) ==
    CASE tool_name = "add_task" -> Msg("Created task: {}", data.title)
      [] tool_name = "list_tasks" -> Msg("Found {} task(s)", ToString(Len(data.tasks)))
      [] tool_name = "complete_task" -> Msg("Marked '{title}' as {}", data.status)
      [] tool_name = "delete_task" -> Msg("Deleted task: {}", data.title)
      [] tool_name = "update_task" -> Msg("Updated task: {}", data.title)
      [] OTHER -> Msg("Operation completed", None)

ToolCallSummary(tool, success, result_preview) ==
    [tool |-> tool, success |-> success, result_preview |-> result_preview]


\* ------------------------------------------------------ orchestration loop
\* What the model backend answers to one create_chat_completion call.
ModelResponse(finish_reason, content, tool_calls) ==
    [finish_reason |-> finish_reason, content |-> content,
     tool_calls |-> tool_calls]
\* One requested call: function name and the arguments text, given by what
\* json.loads makes of it ("object": the map obj; "invalid": not JSON;
\* "nondict": JSON that is not an object).
ToolCall(name, json, obj) ==
    [id |-> 0, name |-> name, arguments |-> [json |-> json, obj |-> obj]]
EmptyParams == Params(Absent, Absent, Absent, Absent)

\* A conversation id that no row has (a uuid4 value never drawn).
UnknownConv == MaxConvs + 1

NoResponse == [message |-> None, conversation_id |-> NoConv, tool_calls |-> <<>>]

\* What POST /api/{user_id}/chat answers when it does not return
\* process_chat's result: the HTTP status and the JSON body's error, code
\* and conversation_id.
EndpointError(status, code, conversation_id) ==
    [status |-> status, error |-> TRUE, code |-> code,
     conversation_id |-> conversation_id]
\* No such answer.
NoEndpointError == [EndpointError(0, None, NoConv) EXCEPT !.error = FALSE]

\* A chat request: process_chat's locals, its position, and its open
\* database transaction (conv, is_new, row, flushed).
IdleReq ==
    [pc |-> "idle", user_id |-> None, conversation_id |-> NoConv,
     message |-> None,
     conv |-> NoConv, is_new |-> FALSE, row |-> NoRow, flushed |-> <<>>,
     prev_conv |-> NoConv, prev_age |-> 0,
     asked_owner |-> None, asked_age |-> 0,
     current_messages |-> <<>>, round_count |-> 0, model_calls |-> <<>>,
     calls |-> <<>>, tool_results |-> <<>>, tool_summaries |-> <<>>,
     dispatched |-> <<>>, exhausted |-> FALSE, raised |-> FALSE,
     response_content |-> None, response |-> NoResponse,
     endpoint |-> NoEndpointError]

ApologyText ==
    "I'm sorry, I encountered an error processing your request. Please try again."

BuildMessagesAppendsCurrent(system_instructions, context) ==
    <<CtxMsg("system", system_instructions)>>
    \o [i \in 1..Len(context) |-> CtxMsg(context[i].role, context[i].content)]
    \o <<CtxMsg("user", context[Len(context)].content)>>
\* _build_messages: the system prompt, then the context.
BuildMessages(system_instructions, context) ==
    <<CtxMsg("system", system_instructions)>>
    \o [i \in 1..Len(context) |-> CtxMsg(context[i].role, context[i].content)]

\* `content or ""`
ContentOrEmpty(content) == IF content = None THEN "" ELSE content

LoopContinuesOneMore(round_count, max_rounds) == round_count <= max_rounds
\* while round_count < max_rounds
LoopContinues(round_count, max_rounds) == round_count < max_rounds

\* process_chat step 1: get_or_create_conversation for owner u with the
\* optional explicit id cid.  The request notes what it found: the session
\* of the owner's last exchange and its age, the explicit session's owner
\* and age.
ChatStart(r, u, cid, m) ==
    /\ req[r].pc \in {"idle", "done"}
    /\ nChats < MaxChats
    /\ nChats' = nChats + 1
    /\ LET reusable == ReusableConversations(conversations, u, cid, now)
           prev == lastConv[u]
           known == cid \in DOMAIN conversations
           base == [IdleReq EXCEPT
                      !.pc = "resolved", !.user_id = u,
                      !.conversation_id = cid, !.message = m,
                      !.prev_conv = prev,
                      !.prev_age = IF prev = NoConv THEN 0
                                   ELSE now - conversations[prev].last_activity,
                      !.asked_owner = IF known THEN conversations[cid].user_id
                                      ELSE None,
                      !.asked_age = IF known
                                    THEN now - conversations[cid].last_activity
                                    ELSE 0]
       IN  \/ /\ \E c \in reusable :
                    req' = [req EXCEPT ![r] =
                              [base EXCEPT !.conv = c, !.row = conversations[c]]]
              /\ UNCHANGED nConv
           \/ /\ reusable = {}
              /\ nConv < MaxConvs
              /\ nConv' = nConv + 1
              /\ req' = [req EXCEPT ![r] =
                           [base EXCEPT !.conv = nConv + 1, !.is_new = TRUE,
                                        !.row = [user_id |-> u,
                                                 created_at |-> now,
                                                 last_activity |-> now]]]
    /\ UNCHANGED <<agentSdk, now, conversations, messages, msgClock, tasks, nTask,
                   registry, clientTools, lastConv, mcp, http>>

ChatContextNoStore(r) ==
    /\ req[r].pc = "resolved"
    /\ LET context == GetContextMessages(messages, req[r].conv, ContextLimit)
       IN  req' = [req EXCEPT
                     ![r].pc = "loop",
                     ![r].current_messages =
                         BuildMessages("<agent_instructions>", context)]
    /\ UNCHANGED <<agentSdk, now, conversations, nConv, messages, msgClock, tasks,
                   nTask, registry, clientTools, nChats, lastConv, mcp, http>>
\* process_chat steps 2 to 4: store the user message, read the context,
\* build the model's messages.
ChatContext(r) ==
    /\ req[r].pc = "resolved"
    /\ LET stamp == msgClock + 1
           userMsg == [id |-> stamp, conversation_id |-> req[r].conv,
                       role |-> "user", content |-> req[r].message,
                       created_at |-> stamp]
           context == GetContextMessages(messages \cup {userMsg},
                                         req[r].conv, ContextLimit)
       IN  /\ msgClock' = stamp
           /\ req' = [req EXCEPT
                        ![r].pc = "loop",
                        ![r].flushed = <<userMsg>>,
                        ![r].current_messages =
                            BuildMessages("<agent_instructions>", context)]
    /\ UNCHANGED <<agentSdk, now, conversations, nConv, messages, tasks, nTask,
                   registry, clientTools, nChats, lastConv, mcp, http>>

\* One round of the loop up to the model's answer: the call to the model
\* (with the tools, when the client has any) and what the loop makes of
\* the response.  A backend asks for tools only when it was given tools.
ModelRespond(r, resp) ==
    /\ req[r].pc = "loop"
    /\ LoopContinues(req[r].round_count, MaxRounds)
    /\ resp.tool_calls # <<>> => clientTools # <<>>
    /\ LET call == [use_tools |-> TRUE, tools_sent |-> clientTools # <<>>]
           n == Len(req[r].tool_summaries)
           tcs == [i \in 1..Len(resp.tool_calls) |->
                     [resp.tool_calls[i] EXCEPT !.id = n + i]]
       IN  IF resp.finish_reason = "stop" \/ resp.tool_calls = <<>>
           THEN req' = [req EXCEPT
                          ![r].pc = "answered",
                          ![r].round_count = @ + 1,
                          ![r].model_calls = Append(@, call),
                          ![r].response_content = ContentOrEmpty(resp.content)]
           ELSE req' = [req EXCEPT
                          ![r].pc = "tools",
                          ![r].round_count = @ + 1,
                          ![r].model_calls = Append(@, call),
                          ![r].current_messages =
                              Append(@, [CtxMsg("assistant", resp.content)
                                            EXCEPT !.tool_calls = tcs]),
                          ![r].calls = tcs,
                          ![r].tool_results = <<>>]
    /\ UNCHANGED <<agentSdk, now, conversations, nConv, messages, msgClock, tasks,
                   nTask, registry, clientTools, nChats, lastConv, mcp, http>>


\* json.loads(tool_call.function.arguments), with {} for text that is not
\* JSON.
LoadArguments(arguments) ==
    IF arguments.json = "invalid" THEN EmptyParams ELSE arguments.obj

CollectResultFirst(tool_results, result) == <<result>> \o tool_results
\* tool_results.append(build_tool_result_message(...))
CollectResult(tool_results, result) == Append(tool_results, result)

\* The loop's handling of the next requested call: parse the arguments,
\* execute_mcp_tool, and the tool message and summary of its outcome.  The
\* dispatch server commits the handler's work before it answers.  Arguments
\* that are JSON but not an object make {**arguments} raise a TypeError,
\* which leaves the loop; process_chat answers with its apology.  After the
\* last call of the round the tool messages join the context.
ToolStep(r, transport) ==
    /\ req[r].pc = "tools"
    /\ req[r].calls # <<>>
    /\ \E ex \in {ExecuteMcpTool(registry, Head(req[r].calls).name,
                                  LoadArguments(Head(req[r].calls).arguments),
                                  req[r].user_id, transport, tasks, nTask)} :
       LET tc == Head(req[r].calls)
           sentence == FormatToolErrorForUser(ex.error)
           result == BuildToolResultMessage(tc.id, ex.raised, ex.data, sentence)
           summary == IF ex.raised
                      THEN ToolCallSummary(tc.name, FALSE, sentence)
                      ELSE ToolCallSummary(tc.name, TRUE,
                               FormatResultPreview(tc.name, ex.data))
           results == CollectResult(req[r].tool_results, result)
           last == Len(req[r].calls) = 1
       IN  IF tc.arguments.json = "nondict"
           THEN /\ req' = [req EXCEPT ![r].pc = "answered",
                                      ![r].raised = TRUE,
                                      ![r].response_content = ApologyText]
                /\ UNCHANGED <<tasks, nTask>>
           ELSE /\ ex.nTask <= MaxTasks
                /\ tasks' = ex.tasks
                /\ nTask' = ex.nTask
                /\ req' = [req EXCEPT
                     ![r].pc = IF last THEN "loop" ELSE "tools",
                     ![r].calls = Tail(@),
                     ![r].tool_results = IF last THEN <<>> ELSE results,
                     ![r].tool_summaries = Append(@, summary),
                     ![r].dispatched =
                        Append(@, [tool |-> tc.name,
                                   arguments |-> LoadArguments(tc.arguments),
                                   parameters |-> ex.parameters,
                                   transport |-> transport,
                                   invoked |-> ex.invoked]),
                     ![r].current_messages =
                        IF last THEN @ \o results ELSE @]
    /\ UNCHANGED <<agentSdk, now, conversations, nConv, messages, msgClock, registry,
                   clientTools, nChats, lastConv, mcp, http>>

ModelFinalWithTools(r, content) ==
    /\ req[r].pc = "loop"
    /\ ~LoopContinues(req[r].round_count, MaxRounds)
    /\ req' = [req EXCEPT
                 ![r].pc = "answered",
                 ![r].exhausted = TRUE,
                 ![r].model_calls =
                    Append(@, [use_tools |-> TRUE,
                               tools_sent |-> clientTools # <<>>]),
                 ![r].response_content = ContentOrEmpty(content)]
    /\ UNCHANGED <<agentSdk, now, conversations, nConv, messages, msgClock, tasks,
                   nTask, registry, clientTools, nChats, lastConv, mcp, http>>
\* The call after the loop has used up its rounds: no tools offered, the
\* content is the answer.
ModelFinal(r, content) ==
    /\ req[r].pc = "loop"
    /\ ~LoopContinues(req[r].round_count, MaxRounds)
    /\ req' = [req EXCEPT
                 ![r].pc = "answered",
                 ![r].exhausted = TRUE,
                 ![r].model_calls =
                    Append(@, [use_tools |-> FALSE, tools_sent |-> FALSE]),
                 ![r].response_content = ContentOrEmpty(content)]
    /\ UNCHANGED <<agentSdk, now, conversations, nConv, messages, msgClock, tasks,
                   nTask, registry, clientTools, nChats, lastConv, mcp, http>>

ModelRaiseRollsBack(r) ==
    /\ req[r].pc = "loop"
    /\ LET inLoop == LoopContinues(req[r].round_count, MaxRounds)
       IN  req' = [req EXCEPT
                 ![r].pc = "answered",
                 ![r].raised = TRUE,
                 ![r].round_count = IF inLoop THEN @ + 1 ELSE @,
                 ![r].model_calls =
                    Append(@, [use_tools |-> inLoop,
                               tools_sent |-> inLoop /\ clientTools # <<>>]),
                 ![r].response_content = ApologyText]
    /\ tasks' = <<>>
    /\ UNCHANGED <<agentSdk, now, conversations, nConv, messages, msgClock,
                   nTask, registry, clientTools, nChats, lastConv, mcp, http>>
\* create_chat_completion raises (the backend fails): process_chat's
\* except clause sets the apology; the summaries of the loop are lost.
ModelRaise(r) ==
    /\ req[r].pc = "loop"
    /\ LET inLoop == LoopContinues(req[r].round_count, MaxRounds)
       IN  req' = [req EXCEPT
                 ![r].pc = "answered",
                 ![r].raised = TRUE,
                 ![r].round_count = IF inLoop THEN @ + 1 ELSE @,
                 ![r].model_calls =
                    Append(@, [use_tools |-> inLoop,
                               tools_sent |-> inLoop /\ clientTools # <<>>]),
                 ![r].response_content = ApologyText]
    /\ UNCHANGED <<agentSdk, now, conversations, nConv, messages, msgClock, tasks,
                   nTask, registry, clientTools, nChats, lastConv, mcp, http>>

ChatFinishNoTouch(r) ==
    /\ req[r].pc = "answered"
    /\ LET stamp == msgClock + 1
           reply == [id |-> stamp, conversation_id |-> req[r].conv,
                     role |-> "assistant",
                     content |-> req[r].response_content,
                     created_at |-> stamp]
       IN  /\ msgClock' = stamp
           /\ req' = [req EXCEPT ![r].pc = "finished",
                                 ![r].flushed = Append(@, reply)]
    /\ UNCHANGED <<agentSdk, now, conversations, nConv, messages, tasks, nTask,
                   registry, clientTools, nChats, lastConv, mcp, http>>
\* process_chat steps 6 and 7: store the assistant message, then
\* update_conversation_activity sets last_activity to the clock.
ChatFinish(r) ==
    /\ req[r].pc = "answered"
    /\ LET stamp == msgClock + 1
           reply == [id |-> stamp, conversation_id |-> req[r].conv,
                     role |-> "assistant",
                     content |-> req[r].response_content,
                     created_at |-> stamp]
       IN  /\ msgClock' = stamp
           /\ req' = [req EXCEPT ![r].pc = "finished",
                                 ![r].flushed = Append(@, reply),
                                 ![r].row.last_activity = now]
    /\ UNCHANGED <<agentSdk, now, conversations, nConv, messages, tasks, nTask,
                   registry, clientTools, nChats, lastConv, mcp, http>>

ChatCommitOneSessionPerOwner(r) ==
    /\ req[r].pc = "finished"
    /\ IF req[r].is_new
          /\ \E c \in DOMAIN conversations :
                /\ conversations[c].user_id = req[r].user_id
                /\ now - conversations[c].last_activity <= SessionTimeout
       THEN /\ req' = [req EXCEPT ![r].pc = "done", ![r].raised = TRUE]
            /\ UNCHANGED <<conversations, messages, lastConv>>
       ELSE /\ conversations' =
                  [c \in DOMAIN conversations \cup {req[r].conv} |->
                      IF c # req[r].conv THEN conversations[c]
                      ELSE IF req[r].is_new THEN req[r].row
                      ELSE [conversations[c] EXCEPT
                               !.last_activity = req[r].row.last_activity]]
            /\ messages' = messages \cup SeqToSet(req[r].flushed)
            /\ lastConv' = [lastConv EXCEPT ![req[r].user_id] = req[r].conv]
            /\ req' = [req EXCEPT
                         ![r].pc = "done",
                         ![r].response =
                            [message |-> req[r].response_content,
                             conversation_id |-> req[r].conv,
                             tool_calls |-> IF req[r].raised THEN <<>>
                                            ELSE req[r].tool_summaries]]
    /\ UNCHANGED <<agentSdk, now, nConv, msgClock, tasks, nTask, registry, clientTools,
                   nChats, mcp, http>>
\* process_chat step 8 and the return: db.commit() publishes the
\* transaction's rows (an INSERT of a new conversation, else an UPDATE of
\* last_activity; the messages), and the ChatResponse is built.  The UPDATE
\* carries the value that update_conversation_activity read from the clock;
\* it takes effect on the row when no other transaction holds the row, and
\* a transaction that waits for the row does nothing meanwhile, so the
\* UPDATE taking effect and the commit are one step.
ChatCommit(r) ==
    /\ req[r].pc = "finished"
    /\ conversations' =
          [c \in DOMAIN conversations \cup {req[r].conv} |->
              IF c # req[r].conv THEN conversations[c]
              ELSE IF req[r].is_new THEN req[r].row
              ELSE [conversations[c] EXCEPT
                       !.last_activity = req[r].row.last_activity]]
    /\ messages' = messages \cup SeqToSet(req[r].flushed)
    /\ lastConv' = [lastConv EXCEPT ![req[r].user_id] = req[r].conv]
    /\ req' = [req EXCEPT
                 ![r].pc = "done",
                 ![r].response =
                    [message |-> req[r].response_content,
                     conversation_id |-> req[r].conv,
                     tool_calls |-> IF req[r].raised THEN <<>>
                                    ELSE req[r].tool_summaries]]
    /\ UNCHANGED <<agentSdk, now, nConv, msgClock, tasks, nTask, registry, clientTools,
                   nChats, mcp, http>>

\* Time passes.
Tick ==
    /\ now < MaxTime
    /\ now' = now + 1
    /\ UNCHANGED <<agentSdk, conversations, nConv, messages, msgClock, tasks, nTask,
                   registry, clientTools, req, nChats, lastConv, mcp, http>>


\* ------------------------------------------------------------ HTTP clients
\* GET /conversations/{conversation_id}/messages?user_id=&limit=: 404 with
\* one fixed body when get_conversation_messages returns None, else the
\* rows.  limit is clamped to 1..200.
GetMessages(convs, msgs, conversation_id, user_id, limit) ==
    LET clamped == IF limit < 1 THEN 1 ELSE IF limit > 200 THEN 200 ELSE limit
        got == GetConversationMessages(convs, msgs, conversation_id, user_id,
                                       clamped)
    IN  IF ~got.found
        THEN [status |-> 404, error |-> "NOT_FOUND",
              message |-> "Conversation not found or you don't have access",
              messages |-> <<>>]
        ELSE [status |-> 200, error |-> None, message |-> None,
              messages |-> got.messages]

NoHttp ==
    [request |-> [conversation_id |-> NoConv, user_id |-> None, limit |-> 0],
     response |-> [status |-> 0, error |-> None, message |-> None,
                   messages |-> <<>>]]

\* A client fetches a conversation's messages.
GetMessagesCall(cid, uid, limit) ==
    /\ http' = [request |-> [conversation_id |-> cid, user_id |-> uid,
                             limit |-> limit],
                response |-> GetMessages(conversations, messages, cid, uid,
                                         limit)]
    /\ UNCHANGED <<agentSdk, now, conversations, nConv, messages, msgClock, tasks,
                   nTask, registry, clientTools, req, nChats, lastConv, mcp>>

NoMcp ==
    [kind |-> "none", tool |-> None, parameters |-> EmptyParams,
     response |-> Envelope(None, None, Msg(None, None), NoDetails, NoData),
     invoked |-> None, tasks_changed |-> FALSE, tools |-> <<>>]

\* A client posts {tool, parameters} to /mcp/call.  The exchange records
\* the handler that ran and whether the task table changed.
McpCall(tool_name, parameters) ==
    /\ \E served \in {CallMcpTool(registry, tool_name, parameters, tasks,
                                   nTask)} :
           /\ served.nTask <= MaxTasks
           /\ tasks' = served.tasks
           /\ nTask' = served.nTask
           /\ mcp' = [NoMcp EXCEPT !.kind = "call", !.tool = tool_name,
                                   !.parameters = parameters,
                                   !.response = served.response,
                                   !.invoked = served.invoked,
                                   !.tasks_changed = (served.tasks # tasks)]
    /\ UNCHANGED <<agentSdk, now, conversations, nConv, messages, msgClock, registry,
                   clientTools, req, nChats, lastConv, http>>

\* A client gets /mcp/tools.
ListToolsCall ==
    /\ mcp' = [NoMcp EXCEPT !.kind = "tools", !.tools = ListTools(registry)]
    /\ UNCHANGED <<agentSdk, now, conversations, nConv, messages, msgClock, tasks,
                   nTask, registry, clientTools, req, nChats, lastConv, http>>

\* @registry.register(name, description, params_model) applied to a handler.
RegisterTool(def) ==
    /\ registry' = RegistryRegister(registry, def)
    /\ UNCHANGED <<agentSdk, now, conversations, nConv, messages, msgClock, tasks,
                   nTask, clientTools, req, nChats, lastConv, mcp, http>>

\* initialize_agent: client.set_tools(get_openai_tools()) when the dispatch
\* server answers GET /mcp/tools; the client keeps what it had when not.
InitializeAgent(reachable) ==
    /\ clientTools' = IF reachable THEN GetOpenaiTools(registry)
                      ELSE clientTools
    /\ UNCHANGED <<agentSdk, now, conversations, nConv, messages, msgClock, tasks,
                   nTask, registry, req, nChats, lastConv, mcp, http>>

\* The parameters of process_chat (agent/chat.py).
\* lifespan (the application's startup): init_db, then, when the agent
\* package imported, initialize_agents_sdk, which builds the Agents SDK
\* agent when the backend's key is configured.  Nothing on this path
\* calls initialize_agent or set_tools: the tools of the client that
\* process_chat uses stay as they are.
Lifespan(agent_available, configured) ==
    /\ agentSdk = "unset"
    /\ agentSdk' = IF ~agent_available THEN "unavailable"
                   ELSE IF configured THEN "ready" ELSE "not_ready"
    /\ UNCHANGED <<now, conversations, nConv, messages, msgClock, tasks,
                   nTask, registry, clientTools, req, nChats, lastConv,
                   mcp, http>>

ProcessChatParameters == {"message", "user_id", "db", "conversation_id"}
\* The keyword arguments chat_endpoint passes to process_chat
\* (mcp_server/main.py).
ChatEndpointKeywords ==
    {"message", "user_id", "db", "conversation_id", "auth_token"}

\* chat_endpoint (POST /api/{user_id}/chat) with a body that passes
\* ChatRequest: 400 when the path's user_id is no UUID; 503 when the agent
\* package did not import; else the call of process_chat.  Python binds
\* the keyword arguments before the body of process_chat runs and raises a
\* TypeError for a keyword that is no parameter; the endpoint's except
\* clause turns any exception into a 200 answer with error = true and code
\* CHAT_FAILED.  When the call binds, process_chat starts.
ChatEndpoint(r, user_id, cid, m, agent_available) ==
    /\ req[r].pc \in {"idle", "done"}
    /\ nChats < MaxChats
    /\ LET answered(e) ==
               /\ nChats' = nChats + 1
               /\ req' = [req EXCEPT ![r] =
                            [IdleReq EXCEPT !.pc = "done", !.user_id = user_id,
                                            !.conversation_id = cid,
                                            !.message = m, !.endpoint = e]]
               /\ UNCHANGED <<agentSdk, now, conversations, nConv, messages, msgClock,
                              tasks, nTask, registry, clientTools, lastConv,
                              mcp, http>>
       IN  IF user_id \notin ValidUuids
           THEN answered(EndpointError(400, "INVALID_USER_ID", NoConv))
           ELSE IF ~agent_available
           THEN answered(EndpointError(503, "AGENT_UNAVAILABLE", NoConv))
           ELSE IF ChatEndpointKeywords \subseteq ProcessChatParameters
           THEN ChatStart(r, user_id, cid, m)
           ELSE answered(EndpointError(200, "CHAT_FAILED", cid))

\* What the client of the chat endpoint receives for a request that is
\* over: the error answer, or response.model_dump() of process_chat's
\* ChatResponse.
EndpointResponse(q) ==
    IF q.endpoint # NoEndpointError
    THEN [status |-> q.endpoint.status, error |-> TRUE,
          code |-> q.endpoint.code, message |-> None,
          conversation_id |-> q.endpoint.conversation_id,
          tool_calls |-> <<>>]
    ELSE [status |-> 200, error |-> FALSE, code |-> None,
          message |-> q.response.message,
          conversation_id |-> q.response.conversation_id,
          tool_calls |-> q.response.tool_calls]

\* ------------------------------------------------------------------ inputs
\* Tool definitions registered beyond the five of the import: under a
\* name the registry holds (the same definition again, and one with a
\* changed model) and under new names, one of them with two definitions.
ExtraTools ==
    { ToolDefinition("add_task", "add_task", AddTaskParams),
      ToolDefinition("list_tasks", "list_tasks",
                     [properties |-> <<Prop("user_id", "uuid"),
                                       Prop("status", "enum")>>,
                      required |-> <<"user_id", "status">>]),
      ToolDefinition("purge", "delete_task", DeleteTaskParams),
      ToolDefinition("purge", "complete_task", CompleteTaskParams),
      ToolDefinition("find", "list_tasks",
                     [properties |-> <<Prop("status", "enum")>>,
                      required |-> <<>>]) }

\* The tool registered late in the dispatch runs.
LateTools == { ToolDefinition("purge", "delete_task", DeleteTaskParams) }

\* Tool names a client of /mcp/call sends.
DispatchTools ==
    {"add_task", "list_tasks", "complete_task", "delete_task", "update_task",
     "purge", "frobnicate"}
\* Parameter maps a client of /mcp/call sends: with and without an owner,
\* a title, and the id of the first task row.
DispatchParams ==
    { Params(u, t, id, Absent) :
        u \in Users \cup {Absent}, t \in {Absent, "milk"},
        id \in {Absent, TaskIdPool[1]} }

\* The tools whose handler acts on one task row.
TaskTools == {"complete_task", "delete_task", "update_task"}
\* Parameter maps the clients of the ownership runs send to those tools:
\* either owner, a task id that was or will be drawn, with and without a
\* new title.
OwnershipParams ==
    { Params(u, t, id, Absent) :
        u \in Users, t \in {Absent, "eggs"},
        id \in {TaskIdPool[1], TaskIdPool[2]} }

\* Limits a client of the messages endpoint sends.
Limits == {0, 50}

\* The answers of the model backend in the session runs.
SessionResponses == { ModelResponse("stop", "ok", <<>>) }

\* The calls a model asks for in the loop runs: a call that names another
\* owner, a call on a task id, an unknown tool, arguments that are not JSON
\* and arguments that are JSON but no object.
LoopToolCalls ==
    { ToolCall("add_task", "object", Params("u2", "milk", Absent, Absent)),
      ToolCall("complete_task", "object", Params(Absent, Absent, "t1", Absent)),
      ToolCall("frobnicate", "object", EmptyParams),
      ToolCall("list_tasks", "invalid", EmptyParams),
      ToolCall("add_task", "nondict", EmptyParams) }
RECURSIVE SeqsUpTo(_, _)
\* The sequences over S of length 0..n.
SeqsUpTo(S, n) ==
    IF n = 0 THEN {<<>>}
    ELSE LET shorter == SeqsUpTo(S, n - 1)
         IN  shorter \cup {Append(q, x) : q \in shorter, x \in S}
\* The answers of the model backend in the loop runs: finish_reason,
\* content and tool calls vary independently.
LoopResponses ==
    { ModelResponse(f, c, tcs) :
        f \in {"stop", "tool_calls"}, c \in {None, "ok"},
        tcs \in SeqsUpTo(LoopToolCalls, MaxCallsPerRound) }
\* What the backend returns as the content of the call made without tools.
FinalContents == {None, "", "ok"}
\* What the HTTP exchange with the dispatch server does.
Transports == {"ok", "connect_error"}

\* The user_id path segments a client of the chat endpoint sends.
EndpointUserIds == {"u1", "not-a-uuid"}
\* The answers of the model backend in the endpoint runs: it asks for
\* add_task with a title, or it answers.
EndpointResponses ==
    { ModelResponse("tool_calls", None,
          <<ToolCall("add_task", "object",
                     Params(Absent, "milk", Absent, Absent))>>),
      ModelResponse("stop", "I've added milk", <<>>) }


\* --------------------------------------------------------- specifications
\* The state after the modules are imported and the application is built:
\* empty tables, the five tools registered, a client without tools.
Init ==
    /\ now = 0
    /\ conversations = <<>>
    /\ nConv = 0
    /\ messages = {}
    /\ msgClock = 0
    /\ tasks = <<>>
    /\ nTask = 0
    /\ registry = RegisteredAtImport
    /\ clientTools = <<>>
    /\ req = [r \in Reqs |-> IdleReq]
    /\ nChats = 0
    /\ lastConv = [u \in Users |-> NoConv]
    /\ mcp = NoMcp
    /\ http = NoHttp
    /\ agentSdk = "unset"

\* No other chat request is in flight.
Sequential(r) == \A q \in Reqs \ {r} : req[q].pc \in {"idle", "done"}

\* Session ids a client can name: none, one it has seen, one nobody has.
AskableConvs == {NoConv, UnknownConv} \cup DOMAIN conversations

\* The session runs: chat requests of two owners, one after the other,
\* with and without an explicit session id, while time passes.
Next ==
    \/ Tick
    \/ \E u \in Users, cid \in AskableConvs, m \in UserMessages :
          Sequential(1) /\ ChatStart(1, u, cid, m)
    \/ ChatContext(1)
    \/ \E resp \in SessionResponses : ModelRespond(1, resp)
    \/ ModelRaise(1)
    \/ ChatFinish(1)
    \/ ChatCommit(1)

Spec == Init /\ [][Next]_vars

\* The message runs: the chat requests of the session runs within one
\* tick of the clock, and clients that fetch the messages of a session.
NextMessages ==
    \/ \E u \in Users, cid \in AskableConvs, m \in UserMessages :
          Sequential(1) /\ ChatStart(1, u, cid, m)
    \/ ChatContext(1)
    \/ \E resp \in SessionResponses : ModelRespond(1, resp)
    \/ ModelRaise(1)
    \/ ChatFinish(1)
    \/ ChatCommit(1)
    \/ \E cid \in AskableConvs \ {NoConv}, uid \in Users, limit \in Limits :
          GetMessagesCall(cid, uid, limit)

SpecMessages == Init /\ [][NextMessages]_vars

\* Chat requests served in one loop run.
LoopChats == 1

\* The loop runs: one owner's chat request against every answer of the
\* model backend and every outcome of the exchange with the dispatch server.
NextLoop ==
    \/ \E reachable \in BOOLEAN : InitializeAgent(reachable)
    \/ \E m \in UserMessages :
          nChats < LoopChats /\ Sequential(1) /\ ChatStart(1, "u1", NoConv, m)
    \/ ChatContext(1)
    \/ \E resp \in LoopResponses : ModelRespond(1, resp)
    \/ \E transport \in Transports : ToolStep(1, transport)
    \/ \E content \in FinalContents : ModelFinal(1, content)
    \/ ModelRaise(1)
    \/ ChatFinish(1)
    \/ ChatCommit(1)

SpecLoop == Init /\ [][NextLoop]_vars

\* The endpoint runs: clients of the chat endpoint (slot 1) and callers of
\* process_chat itself, as the agent's tests are (slot 2), one request at
\* a time, against a model backend that asks for add_task or answers.
NextEndpoint ==
    \/ InitializeAgent(TRUE)
    \/ \E user_id \in EndpointUserIds, cid \in AskableConvs,
          m \in UserMessages, agent_available \in BOOLEAN :
          Sequential(1) /\ ChatEndpoint(1, user_id, cid, m, agent_available)
    \/ \E m \in UserMessages :
          Sequential(2) /\ ChatStart(2, "u1", NoConv, m)
    \/ ChatContext(2)
    \/ \E resp \in EndpointResponses : ModelRespond(2, resp)
    \/ ToolStep(2, "ok")
    \/ ModelFinal(2, "I've added milk")
    \/ ChatFinish(2)
    \/ ChatCommit(2)

SpecEndpoint == Init /\ [][NextEndpoint]_vars

\* The concurrent runs: chat requests of one owner without an explicit
\* session id, in two coroutines whose steps interleave in any order while
\* time passes.
NextConcurrent ==
    \/ Tick
    \/ \E r \in Reqs, m \in UserMessages : ChatStart(r, "u1", NoConv, m)
    \/ \E r \in Reqs : ChatContext(r)
    \/ \E r \in Reqs, resp \in SessionResponses : ModelRespond(r, resp)
    \/ \E r \in Reqs : ChatFinish(r)
    \/ \E r \in Reqs : ChatCommit(r)

SpecConcurrent == Init /\ [][NextConcurrent]_vars

\* The server runs: the application starts through its lifespan handler
\* and then serves clients of the chat endpoint, of the tool list and of
\* add_task.
NextServer ==
    \/ \E agent_available \in BOOLEAN, configured \in BOOLEAN :
          Lifespan(agent_available, configured)
    \/ \E user_id \in EndpointUserIds, cid \in AskableConvs,
          m \in UserMessages :
          /\ agentSdk # "unset"
          /\ ChatEndpoint(1, user_id, cid, m, agentSdk # "unavailable")
    \/ agentSdk # "unset" /\ ListToolsCall
    \/ \E u \in Users :
          /\ agentSdk # "unset"
          /\ McpCall("add_task", Params(u, "milk", Absent, Absent))

SpecServer == Init /\ [][NextServer]_vars

\* The dispatch runs: clients of the dispatch server, and a late
\* registration.
NextDispatch ==
    \/ \E tool_name \in DispatchTools, parameters \in DispatchParams :
          McpCall(tool_name, parameters)
    \/ \E def \in LateTools : RegisterTool(def)

SpecDispatch == Init /\ [][NextDispatch]_vars

\* The ownership runs: two owners add tasks, and either of them calls the
\* tools that act on one task, on its own rows and on the other's.
NextOwnership ==
    \/ \E u \in Users :
          McpCall("add_task", Params(u, "milk", Absent, Absent))
    \/ \E tool_name \in TaskTools, parameters \in OwnershipParams :
          McpCall(tool_name, parameters)

SpecOwnership == Init /\ [][NextOwnership]_vars

\* The registry runs: registrations, clients that list the tools or call
\* a tool by a name, and the agent's fetch of the tools.
NextRegistry ==
    \/ \E def \in ExtraTools : RegisterTool(def)
    \/ ListToolsCall
    \/ \E tool_name \in {"purge", "frobnicate"} :
          McpCall(tool_name, EmptyParams)
    \/ \E reachable \in BOOLEAN : InitializeAgent(reachable)

SpecRegistry == Init /\ [][NextRegistry]_vars


\* ------------------------------------------------------------------ claims
\* C1: a chat request run with max_rounds = MaxRounds issues at most
\* MaxRounds + 1 calls to the model backend, whatever the backend answers.
C1_RoundBound ==
    \A r \in Reqs : Len(req[r].model_calls) <= MaxRounds + 1
\* A request whose model asked for tools in every round: MaxRounds calls
\* with tools, then the final call without.
C1_RoundBoundReached ==
    \E r \in Reqs :
        /\ req[r].pc = "done"
        /\ req[r].exhausted
        /\ Len(req[r].model_calls) = MaxRounds + 1
        /\ Len(req[r].dispatched) >= MaxRounds

\* C2: when the model asks for tools in every round, the message of the
\* ChatResponse is not the empty string, whatever the final call returns.
C2_FinalMessageNonEmpty ==
    \A r \in Reqs :
        (req[r].pc = "done" /\ req[r].exhausted /\ ~req[r].raised)
            => req[r].response.message # ""

\* C3: sequential chat requests of one owner without an explicit session
\* id: a request that starts less than the timeout after the previous
\* exchange was touched lands in that exchange's session; one that starts
\* more than the timeout after it lands in a different session, newly
\* created.
C3_SessionContinuity ==
    \A r \in Reqs :
        (/\ req[r].pc # "idle"
         /\ req[r].conversation_id = NoConv
         /\ req[r].prev_conv # NoConv)
            => /\ req[r].prev_age < SessionTimeout
                    => (req[r].conv = req[r].prev_conv /\ ~req[r].is_new)
               /\ req[r].prev_age > SessionTimeout
                    => (req[r].conv # req[r].prev_conv /\ req[r].is_new)
\* Two exchanges in one session, then a third request after the timeout
\* that is answered in a new session.
C3_SessionContinuityReached ==
    \E r \in Reqs :
        /\ req[r].pc = "done"
        /\ req[r].conversation_id = NoConv
        /\ req[r].prev_conv # NoConv
        /\ req[r].prev_age > SessionTimeout
        /\ req[r].is_new
        /\ Cardinality({m \in messages :
                           m.conversation_id = req[r].prev_conv}) >= 4

\* C4 (as the code has it): a request with an explicit session id gets
\* that session exactly when the session belongs to the requesting owner
\* and now - last_activity is at most the timeout; a session older than the
\* timeout, or another owner's, is never returned for that request.
C4_ExplicitSessionWithinTimeout ==
    \A r \in Reqs :
        (req[r].pc # "idle" /\ req[r].conversation_id # NoConv)
            => (req[r].conv = req[r].conversation_id
                  <=> (/\ req[r].asked_owner = req[r].user_id
                       /\ req[r].asked_age <= SessionTimeout))
\* An explicit session that is exactly the timeout old is returned.
C4_ExplicitSessionAtTimeoutReached ==
    \E r \in Reqs :
        /\ req[r].pc = "done"
        /\ req[r].conversation_id # NoConv
        /\ req[r].conv = req[r].conversation_id
        /\ req[r].asked_age = SessionTimeout
\* C4 as stated: the explicit session is returned only if it is the
\* requester's and now - last_activity is strictly less than the timeout.
C4_ExplicitSessionStrictlyWithin ==
    \A r \in Reqs :
        (/\ req[r].pc # "idle"
         /\ req[r].conversation_id # NoConv
         /\ req[r].conv = req[r].conversation_id)
            => (/\ req[r].asked_owner = req[r].user_id
                /\ req[r].asked_age < SessionTimeout)

\* C5: fetching the messages of a session with an owner id that is not the
\* session's owner gives not-found with no message data, the very response
\* given for a session id that does not exist, whatever the session holds.
C5_WrongOwnerIsNotFound ==
    /\ \A c \in DOMAIN conversations, u \in Users, limit \in Limits :
          conversations[c].user_id # u
            => /\ GetMessages(conversations, messages, c, u, limit)
                    = GetMessages(conversations, messages, UnknownConv, u,
                                  limit)
               /\ GetMessages(conversations, messages, c, u, limit).status
                    = 404
               /\ GetMessages(conversations, messages, c, u, limit).messages
                    = <<>>
    /\ (/\ http.request.conversation_id \in DOMAIN conversations
        /\ conversations[http.request.conversation_id].user_id
              # http.request.user_id)
          => /\ http.response.status = 404
             /\ http.response.messages = <<>>
             /\ http.response
                  = GetMessages(conversations, messages, UnknownConv,
                                http.request.user_id, http.request.limit)
\* A client asked for a session of another owner that holds messages.
C5_WrongOwnerIsNotFoundReached ==
    /\ http.request.conversation_id \in DOMAIN conversations
    /\ conversations[http.request.conversation_id].user_id
          # http.request.user_id
    /\ \E m \in messages : m.conversation_id = http.request.conversation_id
    /\ http.response.status = 404


\* The names of the properties of a parameter schema.
PropertyNames(schema) ==
    {schema.properties[j].name : j \in 1..Len(schema.properties)}

C7_DispatchedUserIdIsChatOwner ==
    \A r \in Reqs : \A i \in 1..Len(req[r].dispatched) :
        req[r].dispatched[i].parameters.user_id = req[r].user_id
\* The model named another owner in add_task; the row made belongs to the
\* chat's owner.
C7_DispatchedUserIdIsChatOwnerReached ==
    \E r \in Reqs : \E i \in 1..Len(req[r].dispatched) :
        /\ req[r].dispatched[i].arguments.user_id \in Users \ {req[r].user_id}
        /\ req[r].dispatched[i].invoked = "add_task"
        /\ \E t \in DOMAIN tasks : tasks[t].user_id = req[r].user_id

\* C8 (as the code has it): the registry's list operation gives each tool
\* with the full schema of its parameter model, so user_id appears in the
\* list output of every tool whose schema declares it.
C8_ListCarriesFullSchema ==
    /\ Len(ListTools(registry)) = Len(registry)
    /\ \A i \in 1..Len(registry) :
          /\ ListTools(registry)[i].name = registry[i].name
          /\ ListTools(registry)[i].parameters = registry[i].params_model
          /\ "user_id" \in PropertyNames(registry[i].params_model)
                => "user_id" \in PropertyNames(ListTools(registry)[i].parameters)
    /\ mcp.kind = "tools"
          => \A i \in 1..Len(mcp.tools) :
                \E def \in SeqToSet(RegisteredAtImport) \cup ExtraTools :
                    /\ mcp.tools[i].name = def.name
                    /\ mcp.tools[i].parameters = def.params_model
\* A client listed the tools after a registration and got user_id in a
\* schema.
C8_ListCarriesFullSchemaReached ==
    /\ mcp.kind = "tools"
    /\ Len(mcp.tools) > Len(RegisteredAtImport)
    /\ \E i \in 1..Len(mcp.tools) :
          "user_id" \in PropertyNames(mcp.tools[i].parameters)
\* C8 as stated: user_id appears in no entry of the list output.
C8_ListOmitsUserId ==
    mcp.kind = "tools"
       => \A i \in 1..Len(mcp.tools) :
             /\ "user_id" \notin PropertyNames(mcp.tools[i].parameters)
             /\ "user_id" \notin SeqToSet(mcp.tools[i].parameters.required)

\* What is left of a sequence of names when the injected fields go.
NotInjected(names) == {f \in names : f \notin SYSTEM_INJECTED_FIELDS}

\* C9: every function declaration built for the model has no injected
\* field in properties or in required, and has every other property and
\* required entry of the source schema, unchanged and in the same order.
C9_DeclarationsOmitInjectedFields ==
    /\ \A i \in 1..Len(registry) :
          \A src \in {ListTools(registry)[i]} :
          \A fn \in {McpToOpenaiFunction(src).function} :
             /\ fn.name = src.name
             /\ PropertyNames(fn.parameters) \cap SYSTEM_INJECTED_FIELDS = {}
             /\ SeqToSet(fn.parameters.required) \cap SYSTEM_INJECTED_FIELDS = {}
             /\ SeqToSet(fn.parameters.properties)
                  = {q \in SeqToSet(src.parameters.properties) :
                        q.name \notin SYSTEM_INJECTED_FIELDS}
             /\ SeqToSet(fn.parameters.required)
                  = NotInjected(SeqToSet(src.parameters.required))
             /\ \A j, k \in 1..Len(fn.parameters.properties) :
                   j < k =>
                     \E a, b \in 1..Len(src.parameters.properties) :
                        /\ a < b
                        /\ src.parameters.properties[a] = fn.parameters.properties[j]
                        /\ src.parameters.properties[b] = fn.parameters.properties[k]
    /\ \A i \in 1..Len(clientTools) :
          /\ PropertyNames(clientTools[i].function.parameters)
                \cap SYSTEM_INJECTED_FIELDS = {}
          /\ SeqToSet(clientTools[i].function.parameters.required)
                \cap SYSTEM_INJECTED_FIELDS = {}
\* The client holds the declaration of a late-registered tool whose schema
\* requires user_id and task_id: only task_id is left.
C9_DeclarationsOmitInjectedFieldsReached ==
    \E i \in 1..Len(clientTools) :
        /\ clientTools[i].function.name = "purge"
        /\ clientTools[i].function.parameters.required = <<"task_id">>
        /\ PropertyNames(clientTools[i].function.parameters) = {"task_id"}

\* The names of the registered tools, in registration order.
RegisteredNames(reg) == [i \in 1..Len(reg) |-> reg[i].name]

\* C10: POST /mcp/call with a tool name the registry does not hold answers
\* with an error envelope of code VALIDATION_ERROR whose details list the
\* names of all registered tools; no handler runs and no task changes.
C10_UnknownToolEnvelope ==
    /\ \A tool_name \in DispatchTools, p \in DispatchParams :
          tool_name \notin SeqToSet(RegisteredNames(registry))
            => \A a \in {CallMcpTool(registry, tool_name, p, tasks, nTask)} :
                  /\ a.response.status = "error"
                  /\ a.response.code = "VALIDATION_ERROR"
                  /\ a.response.details.available_tools
                        = RegisteredNames(registry)
                  /\ a.response.data = NoData
                  /\ a.invoked = None
                  /\ a.tasks = tasks
                  /\ a.nTask = nTask
    /\ (mcp.kind = "call" /\ mcp.response.message.text = "Unknown tool: {}")
          => /\ mcp.response.status = "error"
             /\ mcp.response.code = "VALIDATION_ERROR"
             /\ mcp.response.details.available_tools
                   \in {RegisteredNames(RegisteredAtImport),
                        RegisteredNames(RegisteredAtImport) \o <<"purge">>}
             /\ mcp.invoked = None
             /\ ~mcp.tasks_changed
\* A client named an unknown tool while task rows existed and a sixth tool
\* was registered.
C10_UnknownToolEnvelopeReached ==
    /\ mcp.kind = "call"
    /\ mcp.tool = "frobnicate"
    /\ mcp.response.code = "VALIDATION_ERROR"
    /\ Len(mcp.response.details.available_tools) = Len(RegisteredAtImport) + 1
    /\ DOMAIN tasks # {}

\* The required fields of a parameter model that a parameter map lacks.
MissingRequired(params_model, parameters) ==
    {f \in SeqToSet(params_model.required) : parameters[f] = Absent}

\* C11: POST /mcp/call for a registered tool with parameters that lack two
\* (or more) required fields answers with one error envelope of code
\* VALIDATION_ERROR whose details hold a "missing" error for each of the
\* lacking fields; no handler runs and no task changes.
C11_AllMissingFieldsReported ==
    /\ \A tool_name \in DispatchTools, p \in DispatchParams :
          \A tool \in {RegistryGet(registry, tool_name)} :
             (tool # NoTool
                /\ Cardinality(MissingRequired(tool.params_model, p)) >= 2)
               => \A a \in {CallMcpTool(registry, tool_name, p, tasks, nTask)} :
                     /\ a.response.status = "error"
                     /\ a.response.code = "VALIDATION_ERROR"
                     /\ \A f \in MissingRequired(tool.params_model, p) :
                           [loc |-> f, type |-> "missing"]
                              \in SeqToSet(a.response.details.errors)
                     /\ Len(a.response.details.errors) >= 2
                     /\ a.response.data = NoData
                     /\ a.invoked = None
                     /\ a.tasks = tasks
                     /\ a.nTask = nTask
    /\ (/\ mcp.kind = "call"
        /\ mcp.tool = "add_task"
        /\ mcp.parameters.user_id = Absent
        /\ mcp.parameters.title = Absent)
          => /\ mcp.response.status = "error"
             /\ mcp.response.code = "VALIDATION_ERROR"
             /\ mcp.response.details.errors
                   = <<[loc |-> "user_id", type |-> "missing"],
                       [loc |-> "title", type |-> "missing"]>>
             /\ mcp.invoked = None
             /\ ~mcp.tasks_changed
\* A client sent add_task with neither user_id nor title while a task row
\* existed, and was told of both.
C11_AllMissingFieldsReportedReached ==
    /\ mcp.kind = "call"
    /\ mcp.tool = "add_task"
    /\ mcp.parameters.user_id = Absent
    /\ mcp.parameters.title = Absent
    /\ Len(mcp.response.details.errors) = 2
    /\ DOMAIN tasks # {}

\* C12: complete_task, delete_task and update_task called with valid
\* parameters whose user_id is not the owner of the task named answer with
\* an error envelope of code UNAUTHORIZED, where a task id that no row has
\* gives TASK_NOT_FOUND; the task table is unchanged, and list_tasks for
\* the owner still shows the task with its title and completion state.
C12_NonOwnerIsUnauthorized ==
    /\ \A tool_name \in TaskTools, p \in OwnershipParams :
          (/\ p.user_id \in Users
           /\ p.task_id # Absent
           /\ ValidateParams(RegistryGet(registry, tool_name).params_model, p)
                 = <<>>)
            => \A a \in {CallMcpTool(registry, tool_name, p, tasks, nTask)} :
                  /\ p.task_id \notin DOMAIN tasks
                       => /\ a.response.status = "error"
                          /\ a.response.code = "TASK_NOT_FOUND"
                          /\ a.tasks = tasks
                  /\ (/\ p.task_id \in DOMAIN tasks
                      /\ tasks[p.task_id].user_id # p.user_id)
                       => /\ a.response.status = "error"
                          /\ a.response.code = "UNAUTHORIZED"
                          /\ a.response.data = NoData
                          /\ a.invoked = tool_name
                          /\ a.tasks = tasks
                          /\ a.nTask = nTask
                          /\ \E i \in 1..Len(
                                ListTasks(Params(tasks[p.task_id].user_id,
                                                 Absent, Absent, Absent),
                                          a.tasks, a.nTask).data.tasks) :
                                ListTasks(Params(tasks[p.task_id].user_id,
                                                 Absent, Absent, Absent),
                                          a.tasks, a.nTask).data.tasks[i]
                                  = [id |-> p.task_id,
                                     title |-> tasks[p.task_id].title,
                                     completed |-> tasks[p.task_id].completed]
    /\ (mcp.kind = "call" /\ mcp.response.code = "UNAUTHORIZED")
          => /\ mcp.response.status = "error"
             /\ mcp.invoked \in TaskTools
             /\ ~mcp.tasks_changed
             /\ mcp.parameters.task_id \in DOMAIN tasks
             /\ tasks[mcp.parameters.task_id].user_id # mcp.parameters.user_id
\* A client that is not the owner sent update_task with another title for
\* a task: the answer is UNAUTHORIZED and the row keeps its title.
C12_NonOwnerIsUnauthorizedReached ==
    /\ mcp.kind = "call"
    /\ mcp.tool = "update_task"
    /\ mcp.response.code = "UNAUTHORIZED"
    /\ mcp.parameters.task_id \in DOMAIN tasks
    /\ mcp.parameters.title \notin {Absent, tasks[mcp.parameters.task_id].title}
    /\ tasks[mcp.parameters.task_id].user_id # mcp.parameters.user_id

\* A request whose model backend raised and that has returned: the
\* ChatResponse carries the apology and the session id, the session is the
\* owner's, its committed last_activity is the touch of this request, and
\* the apology is stored as the assistant message after the user message.
BackendFailureAnswered(r) ==
    /\ req[r].response.message = ApologyText
    /\ req[r].response.conversation_id = req[r].conv
    /\ req[r].conv \in DOMAIN conversations
    /\ conversations[req[r].conv].user_id = req[r].user_id
    /\ conversations[req[r].conv].last_activity = req[r].row.last_activity
    /\ Len(req[r].flushed) = 2
    /\ req[r].flushed[2] \in messages
    /\ req[r].flushed[2].role = "assistant"
    /\ req[r].flushed[2].content = ApologyText
    /\ req[r].flushed[2].conversation_id = req[r].conv

\* The step that stores the assistant message of a failed request sets the
\* session's last_activity to the clock.
BackendFailureTouches(r) ==
    (req[r].pc = "answered" /\ req[r].raised /\ req'[r].pc = "finished")
        => /\ req'[r].row.last_activity = now
           /\ req'[r].raised

\* C13: when the model backend raises during a chat request, process_chat
\* goes on: it stores an assistant message with the generic apology,
\* touches the session (last_activity becomes the clock), commits, and
\* returns a ChatResponse with the apology and the session id.
C13_BackendFailureIsAnswered ==
    /\ [](\A r \in Reqs :
            (req[r].raised /\ req[r].pc = "done") => BackendFailureAnswered(r))
    /\ [][\A r \in Reqs : BackendFailureTouches(r)]_vars
\* A request in a session made earlier failed at the backend and was
\* answered: the apology is stored and the session's last activity moved.
C13_BackendFailureIsAnsweredReached ==
    \E r \in Reqs :
        /\ req[r].pc = "done"
        /\ req[r].raised
        /\ ~req[r].is_new
        /\ req[r].response.message = ApologyText
        /\ req[r].response.conversation_id = req[r].conv
        /\ conversations[req[r].conv].last_activity
              > conversations[req[r].conv].created_at
        /\ \E m \in messages :
              /\ m.conversation_id = req[r].conv
              /\ m.role = "assistant"
              /\ m.content = ApologyText

\* C14 as stated: a request to the chat endpoint with a valid owner UUID,
\* the agent package available and a body that passes ChatRequest is
\* answered with process_chat's result: no error flag, the session id of a
\* session of the owner, and the user and the assistant message stored in
\* that session; when the model asked for add_task and then answered, the
\* answer lists {tool: add_task, success: true}.
C14_EndpointReturnsChatResult ==
    (/\ req[1].pc = "done"
     /\ req[1].user_id \in ValidUuids
     /\ req[1].endpoint.status \notin {400, 503})
       => \A a \in {EndpointResponse(req[1])} :
             /\ a.status = 200
             /\ ~a.error
             /\ a.conversation_id \in DOMAIN conversations
             /\ conversations[a.conversation_id].user_id = req[1].user_id
             /\ \E um, am \in messages :
                   /\ um.conversation_id = a.conversation_id
                   /\ um.role = "user"
                   /\ um.content = req[1].message
                   /\ am.conversation_id = a.conversation_id
                   /\ am.role = "assistant"
                   /\ am.content = a.message
                   /\ um.created_at < am.created_at
             /\ (\E i \in 1..Len(req[1].dispatched) :
                    req[1].dispatched[i].invoked = "add_task")
                  => \E j \in 1..Len(a.tool_calls) :
                        /\ a.tool_calls[j].tool = "add_task"
                        /\ a.tool_calls[j].success

\* The roles a message row can have (MessageRole).
MessageRoles == {"user", "assistant"}

\* The messages a step adds to the table are those of one request that
\* commits: two rows of its session, its user message and then one
\* assistant message; no row is removed or changed.
CommitAddsTheExchange ==
    messages' # messages
        => /\ messages \subseteq messages'
           /\ \E r \in Reqs :
                /\ req[r].pc = "finished"
                /\ req'[r].pc = "done"
                /\ Cardinality(messages' \ messages) = 2
                /\ \E um, am \in messages' \ messages :
                      /\ um.role = "user"
                      /\ um.content = req[r].message
                      /\ am.role = "assistant"
                      /\ am.content = req'[r].response.message
                      /\ um.conversation_id = req[r].conv
                      /\ am.conversation_id = req[r].conv
                      /\ um.created_at < am.created_at

\* C15: every chat request that process_chat completes adds exactly two
\* messages to its session, the user message and then one assistant message, and every
\* stored message has role user or assistant, however many rounds and tool
\* calls the request took: the assistant turns that ask for tools and the
\* tool results live in the model context only.
C15_TwoMessagesPerExchange ==
    /\ [](\A m \in messages : m.role \in MessageRoles)
    /\ [](\A r \in Reqs :
            (req[r].pc = "done" /\ req[r].endpoint = NoEndpointError)
               => /\ Len(req[r].flushed) = 2
                  /\ req[r].flushed[1].role = "user"
                  /\ req[r].flushed[2].role = "assistant"
                  /\ SeqToSet(req[r].flushed) \subseteq messages)
    /\ [][CommitAddsTheExchange]_vars
\* A request that went through MaxRounds rounds of tool calls, whose model
\* context holds assistant tool-call turns and tool results, completed with
\* two messages stored.
C15_TwoMessagesPerExchangeReached ==
    \E r \in Reqs :
        /\ req[r].pc = "done"
        /\ Len(req[r].dispatched) >= MaxRounds
        /\ \E i \in 1..Len(req[r].current_messages) :
              req[r].current_messages[i].role = "tool"
        /\ \E i \in 1..Len(req[r].current_messages) :
              req[r].current_messages[i].tool_calls # <<>>
        /\ Cardinality({m \in messages :
                           m.conversation_id = req[r].conv}) = 2

\* Limits a caller of get_context_messages passes.
ContextLimits == 0..(ContextLimit + 1)

\* The smaller of two numbers.
Min(a, b) == IF a <= b THEN a ELSE b

\* C16: get_context_messages(session, limit) returns exactly the
\* min(limit, total) most recently created messages of the session, oldest
\* first: each row returned is of that session, no row left out is newer
\* than a row returned, the rows are in strictly increasing order of
\* creation, and what is returned is their role and content.  The context
\* a chat request has built is that of its session with the configured
\* limit.
C16_ContextIsMostRecentSlice ==
    /\ \A c \in DOMAIN conversations, limit \in ContextLimits :
          \A mine \in {{m \in messages : m.conversation_id = c}} :
          \A rows \in {GetContextRows(messages, c, limit)} :
          \A ctx \in {GetContextMessages(messages, c, limit)} :
             /\ Len(rows) = Min(limit, Cardinality(mine))
             /\ Len(ctx) = Len(rows)
             /\ Len(ctx) <= limit
             /\ SeqToSet(rows) \subseteq mine
             /\ Cardinality(SeqToSet(rows)) = Len(rows)
             /\ \A x \in mine \ SeqToSet(rows), y \in SeqToSet(rows) :
                   x.created_at < y.created_at
             /\ \A i, j \in 1..Len(rows) :
                   i < j => rows[i].created_at < rows[j].created_at
             /\ \A i \in 1..Len(rows) :
                   ctx[i] = [role |-> rows[i].role, content |-> rows[i].content]
    /\ \A r \in Reqs :
          (req[r].pc = "loop" /\ req[r].round_count = 0)
             => /\ Len(req[r].current_messages) - 1
                     = Min(ContextLimit,
                           1 + Cardinality({m \in messages :
                                               m.conversation_id = req[r].conv}))
                /\ req[r].current_messages[Len(req[r].current_messages)].role
                     = "user"
\* A request read the context of a session that held more messages than
\* the limit: it got ContextLimit of them, and an older message of the
\* session (the apology of a failed exchange) is not among them.
C16_ContextIsMostRecentSliceReached ==
    \E r \in Reqs :
        /\ req[r].pc = "loop"
        /\ req[r].round_count = 0
        /\ Cardinality({m \in messages : m.conversation_id = req[r].conv})
              >= ContextLimit
        /\ Len(req[r].current_messages) = ContextLimit + 1
        /\ \E m \in messages :
              /\ m.conversation_id = req[r].conv
              /\ \A i \in 1..Len(req[r].current_messages) :
                    req[r].current_messages[i].content # m.content

\* No step lowers the committed last_activity of a session.
LastActivityNotLowered ==
    \A c \in DOMAIN conversations :
        conversations'[c].last_activity >= conversations[c].last_activity

\* C17 as stated: the committed last_activity of a session never
\* decreases, also when two requests on the session interleave their touch
\* and commit steps.
C17_LastActivityMonotonic ==
    [][LastActivityNotLowered]_vars

\* The committed sessions of an owner that have not expired at time t:
\* those whose last activity is at most the timeout old.
NonExpired(convs, user_id, t) ==
    {c \in DOMAIN convs :
        /\ convs[c].user_id = user_id
        /\ t - convs[c].last_activity <= SessionTimeout}

\* A step in which a request comes to hold a newly created session starts
\* from a state where the request's owner has no non-expired session.
CreatesOnlyWithoutSession ==
    \A r \in Reqs :
        (req[r].pc # "resolved" /\ req'[r].pc = "resolved" /\ req'[r].is_new)
            => NonExpired(conversations, req'[r].user_id, now) = {}

\* C18: when chat requests do not overlap, with or without explicit
\* session ids, every owner has at every instant at most one non-expired
\* session, and get_or_create_conversation creates a session only when the
\* owner has no session whose last activity lies within the timeout.
C18_OneCurrentSessionPerOwner ==
    /\ [](\A u \in Users :
            Cardinality(NonExpired(conversations, u, now)) <= 1)
    /\ [][CreatesOnlyWithoutSession]_vars
\* An owner with two sessions, one expired and one not, whose last request
\* named the expired one and was given the other.
C18_OneCurrentSessionPerOwnerReached ==
    \E r \in Reqs :
        /\ req[r].pc = "done"
        /\ req[r].conversation_id \in DOMAIN conversations
        /\ req[r].asked_owner = req[r].user_id
        /\ req[r].conv # req[r].conversation_id
        /\ ~req[r].is_new
        /\ Cardinality({c \in DOMAIN conversations :
                           conversations[c].user_id = req[r].user_id}) >= 2
        /\ Cardinality(NonExpired(conversations, req[r].user_id, now)) = 1

\* A request that has returned normally: no exception, a ChatResponse with
\* the model's answer and the id of its session, the session committed for
\* its owner, and its two messages committed in that session.
CompletedNormally(r) ==
    /\ ~req[r].raised
    /\ req[r].response.message = req[r].response_content
    /\ req[r].response.message # ApologyText
    /\ req[r].response.conversation_id = req[r].conv
    /\ req[r].conv \in DOMAIN conversations
    /\ conversations[req[r].conv].user_id = req[r].user_id
    /\ Len(req[r].flushed) = 2
    /\ SeqToSet(req[r].flushed) \subseteq messages
    /\ \A i \in 1..2 : req[r].flushed[i].conversation_id = req[r].conv

\* C19: concurrent chat requests of one owner without an explicit session
\* id each create a session when, at their own start, the owner has no
\* committed non-expired session: the sessions they create are different
\* rows, nothing refuses the second one, and every such request returns
\* normally.  (That two of them end with two non-expired sessions of the
\* owner is the state C19_RacingRequestsBothCreateReached.)
C19_RacingRequestsBothCreate ==
    /\ [](\A r, q \in Reqs :
            (/\ r # q
             /\ req[r].pc \notin {"idle"} /\ req[q].pc \notin {"idle"}
             /\ req[r].is_new /\ req[q].is_new)
               => req[r].conv # req[q].conv)
    /\ [](\A r \in Reqs : req[r].pc = "done" => CompletedNormally(r))
    /\ [][CreatesOnlyWithoutSession]_vars
\* Two requests of one owner, both without a session id, have both
\* returned normally, each with a session it created, and both sessions
\* are non-expired.
C19_RacingRequestsBothCreateReached ==
    \E r, q \in Reqs :
        /\ r # q
        /\ req[r].pc = "done" /\ req[q].pc = "done"
        /\ req[r].user_id = req[q].user_id
        /\ req[r].conversation_id = NoConv /\ req[q].conversation_id = NoConv
        /\ req[r].is_new /\ req[q].is_new
        /\ req[r].conv # req[q].conv
        /\ CompletedNormally(r) /\ CompletedNormally(q)
        /\ {req[r].conv, req[q].conv}
              \subseteq NonExpired(conversations, req[r].user_id, now)

\* The entries of list_tools() under a name.
ListedUnder(reg, name) ==
    {i \in 1..Len(ListTools(reg)) : ListTools(reg)[i].name = name}

\* A step that changes the registry is the registration of a definition:
\* afterwards get(name) is that definition, the other names are held with
\* the definitions they had, and no other name has appeared.
RegistrationReplaces ==
    registry' # registry
        => \E def \in ExtraTools :
              /\ RegistryGet(registry', def.name) = def
              /\ SeqToSet(RegisteredNames(registry'))
                    = SeqToSet(RegisteredNames(registry)) \cup {def.name}
              /\ \A name \in SeqToSet(RegisteredNames(registry)) \ {def.name} :
                    RegistryGet(registry', name) = RegistryGet(registry, name)

\* C20: registering a tool under a name the registry holds replaces the
\* earlier definition and never duplicates it: after any sequence of
\* registrations list_tools() has exactly one entry per registered name,
\* and get(name) is the definition registered last under that name.
C20_RegistrationIsReplacement ==
    /\ [](\A name \in SeqToSet(RegisteredNames(registry)) :
            /\ Cardinality(ListedUnder(registry, name)) = 1
            /\ RegistryGet(registry, name).name = name
            /\ RegistryGet(registry, name) \in SeqToSet(registry))
    /\ [](Len(ListTools(registry))
            = Cardinality(SeqToSet(RegisteredNames(registry))))
    /\ [][RegistrationReplaces]_vars
\* list_tasks was registered again with another model and a name was
\* registered twice: a client that listed the tools got six entries, the
\* second of them list_tasks with the new model.
C20_RegistrationIsReplacementReached ==
    /\ mcp.kind = "tools"
    /\ mcp.tools = ListTools(registry)
    /\ Len(mcp.tools) = Len(RegisteredAtImport) + 1
    /\ mcp.tools[2].name = "list_tasks"
    /\ mcp.tools[2].parameters.required = <<"user_id", "status">>
    /\ RegistryGet(registry, "purge").handler = "complete_task"
    /\ RegistryGet(registry, "find") = NoTool

\* The rounds of a model context in which the loop took the response as a
\* request for tools: its assistant turns that carry tool calls.
ToolRounds(msgs) ==
    Cardinality({ i \in 1..Len(msgs) :
                    msgs[i].role = "assistant" /\ msgs[i].tool_calls # <<>> })

\* The loop of request r has returned (no exception left it).
LoopReturned(r) ==
    /\ req[r].pc \in {"answered", "finished", "done"}
    /\ req[r].endpoint = NoEndpointError
    /\ ~req[r].raised

\* The call without tools is made exactly after MaxRounds tool rounds, as
\* the last of MaxRounds + 1 calls; otherwise every call offered the tools
\* and the last call is the one that answered.
FinalCallOnlyAfterExhaustion ==
    \A r \in Reqs :
        LoopReturned(r) =>
            \A mc \in {req[r].model_calls} :
            \A rounds \in {ToolRounds(req[r].current_messages)} :
                /\ req[r].exhausted <=> rounds = MaxRounds
                /\ req[r].exhausted =>
                      /\ Len(mc) = MaxRounds + 1
                      /\ \A i \in 1..MaxRounds : mc[i].use_tools
                      /\ ~mc[MaxRounds + 1].use_tools
                      /\ ~mc[MaxRounds + 1].tools_sent
                /\ ~req[r].exhausted =>
                      /\ Len(mc) = rounds + 1
                      /\ \A i \in 1..Len(mc) : mc[i].use_tools
                /\ req[r].pc = "done" =>
                      req[r].response.message = req[r].response_content

\* The content of the call without tools, passed through `content or ""`,
\* is the loop's answer.
FinalCallTextIsAnswer ==
    \A r \in Reqs, content \in FinalContents :
        ModelFinal(r, content) =>
            req'[r].response_content = ContentOrEmpty(content)

\* Once the loop has its answer, the request calls neither the model nor
\* the dispatch server again.
NothingAfterTheAnswer ==
    \A r \in Reqs :
        req[r].pc \in {"answered", "finished"} =>
            /\ req'[r].model_calls = req[r].model_calls
            /\ req'[r].dispatched = req[r].dispatched
            /\ req'[r].response_content = req[r].response_content

\* C21: when each of the max_rounds responses inside the loop asked for
\* tools, exactly one more model call is made, without tool declarations,
\* and its text is the answer returned; when a response inside the loop
\* was a final answer, the call without tools is never made and the
\* request makes no further model call or dispatch after that response.
C21_FinalCallAfterExhaustion ==
    /\ []FinalCallOnlyAfterExhaustion
    /\ [][FinalCallTextIsAnswer]_vars
    /\ [][NothingAfterTheAnswer]_vars
\* A request that returned the text of the call without tools after
\* MaxRounds tool rounds, every call of which was dispatched.
C21_FinalCallAfterExhaustionReached ==
    \E r \in Reqs :
        /\ req[r].pc = "done"
        /\ ~req[r].raised
        /\ req[r].exhausted
        /\ ToolRounds(req[r].current_messages) = MaxRounds
        /\ Len(req[r].model_calls) = MaxRounds + 1
        /\ ~req[r].model_calls[MaxRounds + 1].use_tools
        /\ req[r].response.message = "ok"
        /\ Len(req[r].dispatched) >= MaxRounds

\* The loop takes up every tool call of a response for dispatch: after the
\* response the request holds as many calls to run as the response carried.
TakesUpEveryToolCall ==
    \A r \in Reqs, resp \in LoopResponses :
        (ModelRespond(r, resp) /\ resp.tool_calls # <<>>) =>
            /\ req'[r].pc = "tools"
            /\ Len(req'[r].calls) = Len(resp.tool_calls)

\* C22: within the round limit, every tool call of a model response that
\* carries tool calls is dispatched, whatever finish_reason the backend
\* reports with the response.
C22_EveryToolCallDispatched == [][TakesUpEveryToolCall]_vars

\* The tool messages of a model context, in their order.
ToolMessages(msgs) == SelectSeq(msgs, LAMBDA m : m.role = "tool")

\* The sentence of a validation error that names no field.
InvalidDataSentence ==
    Sentence("The request couldn't be processed due to invalid data.",
             Msg(None, None))

\* A call of a tool name the registry does not hold, made by the loop and
\* answered by the dispatch server: the envelope is a VALIDATION_ERROR, no
\* handler ran, the summary is a failure with the invalid-data sentence, and
\* once the round is over the call's tool message carries that sentence.
UnknownToolFedBack ==
    \A r \in Reqs :
    \A i \in 1..Len(req[r].dispatched) :
    \A d \in {req[r].dispatched[i]} :
        (d.tool \notin SeqToSet(RegisteredNames(registry)) /\ d.transport = "ok")
        => /\ \A a \in {CallMcpTool(registry, d.tool, d.parameters,
                                    tasks, nTask)} :
                 /\ a.response.status = "error"
                 /\ a.response.code = "VALIDATION_ERROR"
           /\ d.invoked = None
           /\ req[r].tool_summaries[i]
                 = ToolCallSummary(d.tool, FALSE, InvalidDataSentence)
           /\ (req[r].pc = "loop" \/ LoopReturned(r))
                 => ToolMessages(req[r].current_messages)[i]
                       = BuildToolResultMessage(i, TRUE, NoData,
                                                InvalidDataSentence)

\* The step that runs a call of an unregistered tool leaves the request in
\* its loop: the next call of the round, or the next model call.
UnknownToolDoesNotAbort ==
    \A r \in Reqs :
        ( /\ req[r].pc = "tools"
          /\ req[r].calls # <<>>
          /\ Head(req[r].calls).name \notin SeqToSet(RegisteredNames(registry))
          /\ Head(req[r].calls).arguments.json # "nondict"
          /\ req'[r] # req[r] )
        => /\ req'[r].pc = IF Len(req[r].calls) = 1 THEN "loop" ELSE "tools"
           /\ ~req'[r].raised
           /\ Len(req'[r].tool_summaries) = Len(req[r].tool_summaries) + 1
           /\ ~req'[r].tool_summaries[Len(req'[r].tool_summaries)].success

\* C23: a tool call that names an unregistered tool does not abort the
\* chat request: dispatch answers with a VALIDATION_ERROR envelope, the
\* loop appends that error as the call's tool result, records a summary
\* with success = false, and goes on to the next model call.
C23_UnknownToolIsFedBack ==
    /\ []UnknownToolFedBack
    /\ [][UnknownToolDoesNotAbort]_vars
\* A request whose model named an unknown tool, got the error back as the
\* tool result, was called again and answered.
C23_UnknownToolIsFedBackReached ==
    \E r \in Reqs :
        /\ req[r].pc = "done"
        /\ ~req[r].raised
        /\ Len(req[r].dispatched) >= 1
        /\ req[r].dispatched[1].tool = "frobnicate"
        /\ req[r].dispatched[1].transport = "ok"
        /\ Len(req[r].model_calls) >= 2
        /\ req[r].response.message = "ok"
        /\ ~req[r].response.tool_calls[1].success
        /\ ToolMessages(req[r].current_messages)[1].payload.kind = "error"

\* The tool messages that answer the first k calls of tcs, at positions
\* first, first + 1, ... of msgs: one per call, with the call's id, a
\* result or an error.
AnswersInOrder(msgs, first, tcs, k) ==
    /\ first + k - 1 <= Len(msgs)
    /\ \A j \in 1..k :
          /\ msgs[first + j - 1].role = "tool"
          /\ msgs[first + j - 1].tool_call_id = tcs[j].id
          /\ msgs[first + j - 1].payload.kind \in {"result", "error"}

\* Between rounds and after the loop, every assistant turn with tool calls
\* is followed by exactly one tool message per call, in the order of the
\* calls, and the context holds no other tool message; each tool message
\* is a result or an error as its call's summary says.
RoundsAreRequestThenResults ==
    \A r \in Reqs :
        (req[r].pc = "loop" \/ LoopReturned(r)) =>
            \A msgs \in {req[r].current_messages} :
                /\ \A i \in 1..Len(msgs) :
                      (msgs[i].role = "assistant" /\ msgs[i].tool_calls # <<>>)
                      => \A k \in {Len(msgs[i].tool_calls)} :
                            /\ AnswersInOrder(msgs, i + 1, msgs[i].tool_calls, k)
                            /\ i + k + 1 <= Len(msgs)
                                  => msgs[i + k + 1].role # "tool"
                /\ \A i \in 1..Len(msgs) :
                      msgs[i].role = "tool" =>
                          /\ i > 1
                          /\ \/ msgs[i - 1].role = "tool"
                             \/ /\ msgs[i - 1].role = "assistant"
                                /\ msgs[i - 1].tool_calls # <<>>
                /\ \A tms \in {ToolMessages(msgs)} :
                      /\ Len(tms) = Len(req[r].tool_summaries)
                      /\ \A k \in 1..Len(tms) :
                            req[r].tool_summaries[k].success
                               <=> tms[k].payload.kind = "result"

\* Within a round the request turn is the last message of the context, and
\* the results collected so far answer the calls already run, in order.
RequestTurnComesFirst ==
    \A r \in Reqs :
        (req[r].pc = "tools" /\ req[r].calls # <<>>) =>
            \A msgs \in {req[r].current_messages} :
            \A turn \in {msgs[Len(msgs)]} :
                /\ turn.role = "assistant"
                /\ turn.tool_calls # <<>>
                /\ Len(req[r].tool_results) + Len(req[r].calls)
                      = Len(turn.tool_calls)
                /\ AnswersInOrder(req[r].tool_results, 1, turn.tool_calls,
                                  Len(req[r].tool_results))

\* C24: within a round the model context gains the assistant's tool-call
\* request first and then exactly one tool result message per requested
\* call, each with that call's id, in the order the calls were requested,
\* whether a call succeeded or failed.
C24_ResultsFollowRequestInOrder ==
    RoundsAreRequestThenResults /\ RequestTurnComesFirst
\* A round of two calls, the first answered with a result and the second
\* with an error, in a request that returned.
C24_ResultsFollowRequestInOrderReached ==
    \E r \in Reqs :
        /\ req[r].pc = "done"
        /\ ~req[r].raised
        /\ \E i \in 1..Len(req[r].current_messages) :
              \A msgs \in {req[r].current_messages} :
                  /\ msgs[i].role = "assistant"
                  /\ Len(msgs[i].tool_calls) = 2
                  /\ i + 2 <= Len(msgs)
                  /\ msgs[i + 1].tool_call_id = msgs[i].tool_calls[1].id
                  /\ msgs[i + 1].payload.kind = "result"
                  /\ msgs[i + 2].tool_call_id = msgs[i].tool_calls[2].id
                  /\ msgs[i + 2].payload.kind = "error"

\* The successful add_task calls of request r.
AddedBy(r) ==
    { i \in 1..Len(req[r].dispatched) :
        /\ req[r].dispatched[i].invoked = "add_task"
        /\ req[r].tool_summaries[i].success }

\* Every task that a request's successful add_task created is in the task
\* table, whatever became of the request: a row of the chat owner with the
\* title sent, and at least as many rows of the owner as such calls.
ToolEffectsInPlace ==
    \A r \in Reqs :
        /\ \A i \in AddedBy(r) :
              \E t \in DOMAIN tasks :
                  /\ tasks[t].user_id = req[r].user_id
                  /\ tasks[t].title = req[r].dispatched[i].parameters.title
        /\ Cardinality({t \in DOMAIN tasks : tasks[t].user_id = req[r].user_id})
              >= Cardinality(AddedBy(r))

\* The task table changes only in the step of a tool call that ran a
\* handler; no row ever leaves it.  A failing model call, the apology, the
\* stores and the commit of process_chat leave it as it is.
OnlyToolCallsChangeTasks ==
    /\ tasks' # tasks =>
          \E r \in Reqs :
              /\ req[r].pc = "tools"
              /\ Len(req'[r].dispatched) = Len(req[r].dispatched) + 1
              /\ req'[r].dispatched[Len(req'[r].dispatched)].invoked # None
    /\ DOMAIN tasks \subseteq DOMAIN tasks'

\* C25: tool invocations are not transactional across rounds: the effect on
\* the task store of a tool call that succeeded is still in place after the
\* request completes, also when a later model call of the request failed
\* and the request ended with the generic apology; nothing rolls it back.
C25_ToolEffectsSurviveFailure ==
    /\ []ToolEffectsInPlace
    /\ [][OnlyToolCallsChangeTasks]_vars
\* A request whose add_task succeeded in one round and whose next model
\* call failed: answered with the apology and no tool calls, the task
\* there.
C25_ToolEffectsSurviveFailureReached ==
    \E r \in Reqs :
        /\ req[r].pc = "done"
        /\ req[r].raised
        /\ req[r].response.message = ApologyText
        /\ req[r].response.tool_calls = <<>>
        /\ Len(req[r].model_calls) >= 2
        /\ AddedBy(r) # {}
        /\ \E t \in DOMAIN tasks :
              tasks[t].user_id = req[r].user_id /\ tasks[t].title = "milk"

\* The sentence for a dispatch server that cannot be reached.
UnavailableSentence ==
    Sentence("I'm having trouble connecting to the task service. Please try again in a moment.", Msg(None, None))

\* C26: a transport failure while reaching the dispatch server during a
\* tool call aborts the round: the request dispatches no further tool call
\* after it, and what the end user receives is the one generic sentence.
C26_TransportFailureAbortsRound ==
    \A r \in Reqs :
    \A i \in 1..Len(req[r].dispatched) :
        req[r].dispatched[i].transport = "connect_error" =>
            /\ i = Len(req[r].dispatched)
            /\ req[r].pc = "done" =>
                  req[r].response.message = UnavailableSentence.text

\* The strings a sentence of format_tool_error_for_user is made of: its
\* fixed text and what is interpolated into it.  The generic sentence
\* interpolates the exception's message, "Tool '..' failed: " followed by
\* the message of the envelope or the text of the client's exception.
SentenceParts(s) ==
    IF s.text = "I encountered an issue: {}"
    THEN {s.text, s.inner.text, s.inner.arg.text, s.inner.arg.arg}
    ELSE {s.text, s.inner.text, s.inner.arg}

\* Identifiers of the system: task ids, owner ids, the dispatch server's
\* address.
InternalIdentifiers ==
    SeqToSet(TaskIdPool) \cup Users \cup {McpCallUrl}
\* str(e) of the exceptions of the HTTP client.
RawExceptionTexts == {"ConnectError", "HTTP 5xx", "ReadTimeout"}

\* C27: no failure text that reaches the end user on the chat path (the
\* result_preview of a failed tool call's summary, which is also the error
\* string fed back for the call) holds raw exception text or an internal
\* identifier such as a task id or a server address.
C27_NoInternalsInFailureText ==
    \A r \in Reqs :
    \A i \in 1..Len(req[r].tool_summaries) :
        ~req[r].tool_summaries[i].success =>
            SentenceParts(req[r].tool_summaries[i].result_preview)
               \cap (InternalIdentifiers \cup RawExceptionTexts) = {}

\* C28: after the server has started through its lifespan handler with a
\* configured model backend, the model client that process_chat uses holds
\* a non-empty tool list, and every model call made inside the round loop
\* is sent with the tool declarations.
C28_ClientHoldsToolsAfterStartup ==
    agentSdk = "ready" =>
        /\ clientTools # <<>>
        /\ \A r \in Reqs :
           \A i \in 1..Len(req[r].model_calls) :
               req[r].model_calls[i].use_tools
                  => req[r].model_calls[i].tools_sent

\* The request is about to make its first model call.
BeforeFirstModelCall(r) ==
    /\ req[r].pc = "loop"
    /\ req[r].round_count = 0
    /\ req[r].model_calls = <<>>

\* The messages of the first model call: the system instructions, then the
\* role and content of the context window's rows (the most recent rows of
\* the session, the request's own user message among them), at most
\* ContextLimit of them, the new user message once and last.
FirstCallContext(r) ==
    \A msgs \in {req[r].current_messages} :
    \A rows \in {GetContextRows(messages \cup SeqToSet(req[r].flushed),
                                req[r].conv, ContextLimit)} :
        /\ msgs[1] = CtxMsg("system", "<agent_instructions>")
        /\ Len(msgs) = 1 + Len(rows)
        /\ Len(rows) <= ContextLimit
        /\ \A i \in 1..Len(rows) :
              msgs[1 + i] = CtxMsg(rows[i].role, rows[i].content)
        /\ Len(rows) >= 1
        /\ rows[Len(rows)] = req[r].flushed[1]
        /\ Cardinality({i \in 1..Len(rows) : rows[i] = req[r].flushed[1]}) = 1
        /\ msgs[Len(msgs)] = CtxMsg("user", req[r].message)

\* C29: the context of the first model call of a chat request is the
\* system instructions followed by the session's context window, in which
\* the new user message appears exactly once, as the last entry, and which
\* holds at most context_message_limit persisted messages.
C29_FirstContextEndsWithNewMessage ==
    \A r \in Reqs : BeforeFirstModelCall(r) => FirstCallContext(r)
\* A request in a session that already holds more messages than the
\* window: the context is the system prompt and ContextLimit messages, the
\* last of them the new one.
C29_FirstContextEndsWithNewMessageReached ==
    \E r \in Reqs :
        /\ BeforeFirstModelCall(r)
        /\ ~req[r].is_new
        /\ Cardinality({m \in messages : m.conversation_id = req[r].conv})
              >= ContextLimit
        /\ Len(req[r].current_messages) = 1 + ContextLimit
        /\ req[r].current_messages[Len(req[r].current_messages)]
              = CtxMsg("user", req[r].message)

\* The dedicated sentences of format_tool_error_for_user.
NotFoundSentence ==
    Sentence("I couldn't find that task. It may have been deleted or doesn't exist.", Msg(None, None))
NoPermissionSentence ==
    Sentence("You don't have permission to access that task.", Msg(None, None))

\* The envelope the dispatch server gives for the call that request r runs
\* next.
NextCallEnvelope(r) ==
    CallMcpTool(registry, Head(req[r].calls).name,
                InjectUserId(LoadArguments(Head(req[r].calls).arguments),
                             req[r].user_id),
                tasks, nTask).response

\* A call of the loop that reached the dispatch server and was answered
\* with code TASK_NOT_FOUND (UNAUTHORIZED) gets the not-found
\* (no-permission) sentence as its summary's result_preview and as the
\* error of its tool message.
DomainErrorGetsItsSentence ==
    \A r \in Reqs :
        ( /\ req[r].pc = "tools"
          /\ req[r].calls # <<>>
          /\ Head(req[r].calls).arguments.json # "nondict"
          /\ Len(req'[r].dispatched) = Len(req[r].dispatched) + 1
          /\ req'[r].dispatched[Len(req'[r].dispatched)].transport = "ok" )
        => \A env \in {NextCallEnvelope(r)} :
           \A summary \in {req'[r].tool_summaries[Len(req'[r].tool_summaries)]} :
              /\ env.code = "TASK_NOT_FOUND"
                    => summary.result_preview = NotFoundSentence
              /\ env.code = "UNAUTHORIZED"
                    => summary.result_preview = NoPermissionSentence

\* C30: when dispatch answers a tool call of the loop with the not-found
\* (the unauthorized) code, the error string fed back to the model and
\* recorded in the summary is the dedicated "could not find that task"
\* ("no permission") sentence, not the text of a generic failure.
C30_DomainErrorsHaveDedicatedSentences == [][DomainErrorGetsItsSentence]_vars

====
